---- MODULE Spec2Model ----
(***************************************************************************)
(* gestionale01: vehicle record store (flat JSON file and MySQL table)     *)
(* with the web front end's login gate.                                    *)
(*                                                                         *)
(* Text (Python str) is a sequence of one-character strings, so that       *)
(* strip(), int() and isoformat() are computed, not assumed.  The          *)
(* character "U+00E8" stands for a non-ASCII letter.  An optional value    *)
(* (str | None) is a sequence of length 0 (None) or 1.  Attribute and      *)
(* column names are TLA+ strings; a Python object or dict is a function    *)
(* from names to values.                                                   *)
(***************************************************************************)
EXTENDS Integers, Sequences, FiniteSets, TLC

VARIABLES
    backend,   \* "json" | "mysql": the storage object the callers share
    file,      \* the JSON backing file
    table,     \* the MySQL vehicles table
    clock,     \* the day date.today() returns
    pre,       \* file, table and session as they were before the last call
    call,      \* the last storage call: arguments, outcome, returned value
    auth,      \* AuthConfig of the web application
    session,   \* the browser session of the web client
    resp,      \* the last web request and its response
    hist,      \* history: the records added so far, while every storage call
               \* since the empty store was a load or an add of a new id
    procs,     \* the calls of the concurrent callers, each between its steps
    users      \* the MySQL users table

vars == <<backend, file, table, clock, pre, call, auth, session, resp, hist, procs, users>>

----------------------------------------------------------------------------
(* Bounds *)

\* date.today() ranges over the days 1..MaxDay of one month
MaxDay == 2

----------------------------------------------------------------------------
(* Text *)

None == <<>>

Some(x) == <<x>>

\* bool(x) of a str | None value
Truthy(opt) == opt # None /\ opt[1] # <<>>

\* x or "" for a str | None value
OrEmpty(opt) == IF opt = None THEN <<>> ELSE opt[1]

IsSpace(c) == c \in {" ", "\t", "\n"}

RECURSIVE LStrip(_)
LStrip(s) == IF s # <<>> /\ IsSpace(Head(s)) THEN LStrip(Tail(s)) ELSE s

RECURSIVE RStrip(_)
RStrip(s) ==
    IF s # <<>> /\ IsSpace(s[Len(s)]) THEN RStrip(SubSeq(s, 1, Len(s) - 1)) ELSE s

\* str.strip()
Strip(s) == RStrip(LStrip(s))

DigitChars == <<"0", "1", "2", "3", "4", "5", "6", "7", "8", "9">>

IsDigit(c) == \E i \in 1..10 : DigitChars[i] = c

DigitVal(c) == (CHOOSE i \in 1..10 : DigitChars[i] = c) - 1

RECURSIVE DigitsVal(_)
DigitsVal(s) ==
    IF s = <<>> THEN 0 ELSE 10 * DigitsVal(SubSeq(s, 1, Len(s) - 1)) + DigitVal(s[Len(s)])

\* zero-padded decimal of n on w digits
RECURSIVE Pad(_, _)
Pad(n, w) == IF w = 0 THEN <<>> ELSE Pad(n \div 10, w - 1) \o <<DigitChars[(n % 10) + 1]>>

\* date.isoformat(): YYYY-MM-DD
IsoFormat(d) == Pad(d.year, 4) \o <<"-">> \o Pad(d.month, 2) \o <<"-">> \o Pad(d.day, 2)

\* a DATE column's value for an ISO-8601 string
DateOfIso(s) ==
    [year  |-> DigitsVal(SubSeq(s, 1, 4)),
     month |-> DigitsVal(SubSeq(s, 6, 7)),
     day   |-> DigitsVal(SubSeq(s, 9, 10))]

\* date.today() on day c of the month
Today(c) == [year |-> 2024, month |-> 1, day |-> c]

TodayIso(c) == IsoFormat(Today(c))

----------------------------------------------------------------------------
(* Vehicle record *)

Fields ==
    {"vehicle_id", "targa", "modello", "anno", "chilometraggio", "stato", "note",
     "aggiornato_il"}

Disponibile == <<"d", "i", "s", "p">>

\* Vehicle.to_dict / dataclasses.asdict: the dataclass fields of the object only
AsDict(obj) == [k \in Fields |-> obj[k]]

\* int() of a value that is an int already
IntOf(x) == x + 0

\* Vehicle.from_dict at day c: defaults for absent keys, other keys dropped
FromDict(p, c) ==
    [vehicle_id     |-> p["vehicle_id"],
     targa          |-> p["targa"],
     modello        |-> p["modello"],
     anno           |-> IntOf(p["anno"]),
     chilometraggio |-> IntOf(p["chilometraggio"]),
     stato          |-> IF "stato" \in DOMAIN p THEN p["stato"] ELSE Disponibile,
     note           |-> IF "note" \in DOMAIN p THEN p["note"] ELSE <<>>,
     aggiornato_il  |-> IF "aggiornato_il" \in DOMAIN p THEN p["aggiornato_il"]
                        ELSE TodayIso(c)]

\* setattr(obj, key, value) for every key of changes, or row[key] = value
SetAll(obj, changes) ==
    [k \in (DOMAIN obj) \cup (DOMAIN changes) |->
        IF k \in DOMAIN changes THEN changes[k] ELSE obj[k]]

\* the dataclass's __eq__: field by field
VehicleEq(a, b) == AsDict(a) = AsDict(b)

----------------------------------------------------------------------------
(* Flat-file backend: VehicleStorage *)

NoFile == [exists |-> FALSE, items |-> <<>>]

\* VehicleStorage.load at day c
JsonLoad(f, c) ==
    IF ~f.exists THEN <<>>
    ELSE [i \in 1..Len(f.items) |-> FromDict(f.items[i], c)]

\* VehicleStorage.save: the whole file is rewritten
JsonSave(vehicles) ==
    [exists |-> TRUE, items |-> [i \in 1..Len(vehicles) |-> AsDict(vehicles[i])]]

\* add without the duplicate check
JsonAddNoCheck(f, vehicle, c) ==
    [outcome |-> "ok", file |-> JsonSave(Append(JsonLoad(f, c), vehicle)), ret |-> None]

\* add that writes the file before it checks for a duplicate
JsonAddWriteFirst(f, vehicle, c) ==
    LET vehicles == JsonLoad(f, c) IN
    [outcome |-> IF \E i \in 1..Len(vehicles) :
                        vehicles[i]["vehicle_id"] = vehicle["vehicle_id"]
                 THEN "duplicate" ELSE "ok",
     file |-> JsonSave(Append(vehicles, vehicle)), ret |-> None]

\* add that puts the new record first: vehicles.insert(0, vehicle)
JsonAddFront(f, vehicle, c) ==
    LET vehicles == JsonLoad(f, c) IN
    IF \E i \in 1..Len(vehicles) : vehicles[i]["vehicle_id"] = vehicle["vehicle_id"]
    THEN [outcome |-> "duplicate", file |-> f, ret |-> None]
    ELSE [outcome |-> "ok", file |-> JsonSave(<<vehicle>> \o vehicles), ret |-> None]

\* VehicleStorage.add
JsonAdd(f, vehicle, c) ==
    LET vehicles == JsonLoad(f, c) IN
    IF \E i \in 1..Len(vehicles) : vehicles[i]["vehicle_id"] = vehicle["vehicle_id"]
    THEN [outcome |-> "duplicate", file |-> f, ret |-> None]
    ELSE [outcome |-> "ok", file |-> JsonSave(Append(vehicles, vehicle)), ret |-> None]

\* update whose vehicle_id is positional-only, so that **changes takes any name
JsonUpdateAnyKeyword(f, vehicle_id, changes, c) ==
    LET vehicles == JsonLoad(f, c)
        hits     == {i \in 1..Len(vehicles) : vehicles[i]["vehicle_id"] = vehicle_id}
    IN  IF hits = {}
        THEN [outcome |-> "not_found", file |-> f, ret |-> None]
        ELSE LET i   == CHOOSE h \in hits : \A g \in hits : h <= g
                 obj == [SetAll(vehicles[i], changes) EXCEPT
                            !["aggiornato_il"] = TodayIso(c)]
                 all == [j \in 1..Len(vehicles) |-> IF j = i THEN obj ELSE vehicles[j]]
             IN  [outcome |-> "ok", file |-> JsonSave(all), ret |-> Some(obj)]

\* update that saves what it loaded before it raises not-found
JsonUpdateSaveOnMiss(f, vehicle_id, changes, c) ==
    IF "vehicle_id" \in DOMAIN changes
    THEN [outcome |-> "type_error", file |-> f, ret |-> None]
    ELSE
    LET vehicles == JsonLoad(f, c)
        hits     == {i \in 1..Len(vehicles) : vehicles[i]["vehicle_id"] = vehicle_id}
    IN  IF hits = {}
        THEN [outcome |-> "not_found", file |-> JsonSave(vehicles), ret |-> None]
        ELSE LET i   == CHOOSE h \in hits : \A g \in hits : h <= g
                 obj == [SetAll(vehicles[i], changes) EXCEPT
                            !["aggiornato_il"] = TodayIso(c)]
                 all == [j \in 1..Len(vehicles) |-> IF j = i THEN obj ELSE vehicles[j]]
             IN  [outcome |-> "ok", file |-> JsonSave(all), ret |-> Some(obj)]

\* update that stamps the date before it applies the changes
JsonUpdateStampFirst(f, vehicle_id, changes, c) ==
    IF "vehicle_id" \in DOMAIN changes
    THEN [outcome |-> "type_error", file |-> f, ret |-> None]
    ELSE
    LET vehicles == JsonLoad(f, c)
        hits     == {i \in 1..Len(vehicles) : vehicles[i]["vehicle_id"] = vehicle_id}
    IN  IF hits = {}
        THEN [outcome |-> "not_found", file |-> f, ret |-> None]
        ELSE LET i   == CHOOSE h \in hits : \A g \in hits : h <= g
                 obj == SetAll([vehicles[i] EXCEPT !["aggiornato_il"] = TodayIso(c)],
                               changes)
                 all == [j \in 1..Len(vehicles) |-> IF j = i THEN obj ELSE vehicles[j]]
             IN  [outcome |-> "ok", file |-> JsonSave(all), ret |-> Some(obj)]

\* VehicleStorage.update; a keyword named like the positional parameter
\* vehicle_id cannot be bound into **changes: the call raises TypeError
JsonUpdate(f, vehicle_id, changes, c) ==
    IF "vehicle_id" \in DOMAIN changes
    THEN [outcome |-> "type_error", file |-> f, ret |-> None]
    ELSE
    LET vehicles == JsonLoad(f, c)
        hits     == {i \in 1..Len(vehicles) : vehicles[i]["vehicle_id"] = vehicle_id}
    IN  IF hits = {}
        THEN [outcome |-> "not_found", file |-> f, ret |-> None]
        ELSE LET i   == CHOOSE h \in hits : \A g \in hits : h <= g
                 obj == [SetAll(vehicles[i], changes) EXCEPT
                            !["aggiornato_il"] = TodayIso(c)]
                 all == [j \in 1..Len(vehicles) |-> IF j = i THEN obj ELSE vehicles[j]]
             IN  [outcome |-> "ok", file |-> JsonSave(all), ret |-> Some(obj)]

\* VehicleStorage.remove
JsonRemove(f, vehicle_id, c) ==
    LET vehicles == JsonLoad(f, c)
        Keep(v)  == v["vehicle_id"] # vehicle_id
        filtered == SelectSeq(vehicles, Keep)
    IN  IF Len(filtered) = Len(vehicles)
        THEN [outcome |-> "not_found", file |-> f, ret |-> None]
        ELSE [outcome |-> "ok", file |-> JsonSave(filtered), ret |-> None]

----------------------------------------------------------------------------
(* Relational backend: MySQLVehicleStorage *)

NoTable == [exists |-> FALSE, rows |-> {}]

\* CREATE TABLE IF NOT EXISTS vehicles (...), committed
EnsureTable(t) == [t EXCEPT !.exists = TRUE]

\* the row the table keeps for the values bound to a statement: the
\* aggiornato_il DATE column holds a date, not the string
RowOf(d) == [AsDict(d) EXCEPT !["aggiornato_il"] = DateOfIso(d["aggiornato_il"])]

\* the VARCHAR(n) columns of the vehicles table
Widths == [vehicle_id |-> 50, targa |-> 20, modello |-> 120, stato |-> 40]

\* every text of d fits its column
Fits(d) == \A k \in (DOMAIN Widths) \cap (DOMAIN d) : Len(d[k]) <= Widths[k]

\* INSERT INTO vehicles under the column widths and the PRIMARY KEY on
\* vehicle_id; the server is in strict SQL mode (its default), where a text
\* longer than its column fails the statement
SqlInsert(t, d) ==
    IF ~Fits(d)
    THEN [outcome |-> "data_error", table |-> t]
    ELSE IF \E r \in t.rows : r["vehicle_id"] = d["vehicle_id"]
         THEN [outcome |-> "integrity_error", table |-> t]
         ELSE [outcome |-> "ok", table |-> [t EXCEPT !.rows = @ \cup {RowOf(d)}]]

\* every order in which a SELECT without ORDER BY may return the rows
RECURSIVE Orders(_)
Orders(S) ==
    IF S = {} THEN {<<>>}
    ELSE UNION {{<<r>> \o rest : rest \in Orders(S \ {r})} : r \in S}

\* a fetched row as MySQLVehicleStorage.load hands it to Vehicle.from_dict
LoadedRow(r, c) ==
    FromDict([r EXCEPT !["aggiornato_il"] = IsoFormat(r["aggiornato_il"])], c)

\* MySQLVehicleStorage.load: the lists the call may return
MySQLLoad(t, c) ==
    {[i \in 1..Len(o) |-> LoadedRow(o[i], c)] : o \in Orders(t.rows)}

\* add that leaves the duplicate check to the INSERT
MySQLAddNoCount(t, vehicle, c) ==
    LET ins == SqlInsert(EnsureTable(t), vehicle)
    IN  [outcome |-> ins.outcome, table |-> ins.table, ret |-> None]

\* MySQLVehicleStorage.add
MySQLAdd(t, vehicle, c) ==
    LET t1    == EnsureTable(t)
        count == Cardinality({r \in t1.rows : r["vehicle_id"] = vehicle["vehicle_id"]})
    IN  IF count > 0
        THEN [outcome |-> "duplicate", table |-> t1, ret |-> None]
        ELSE LET ins == SqlInsert(t1, vehicle)
             IN  [outcome |-> ins.outcome, table |-> ins.table, ret |-> None]

\* update whose UPDATE statement has no WHERE clause
MySQLUpdateNoWhere(t, vehicle_id, changes, c) ==
    IF "vehicle_id" \in DOMAIN changes
    THEN [outcome |-> "type_error", table |-> t, ret |-> None]
    ELSE
    LET t1    == EnsureTable(t)
        found == {r \in t1.rows : r["vehicle_id"] = vehicle_id}
    IN  IF found = {}
        THEN [outcome |-> "not_found", table |-> t1, ret |-> None]
        ELSE LET row  == [SetAll(CHOOSE r \in found : TRUE, changes) EXCEPT
                             !["aggiornato_il"] = TodayIso(c)]
                 new  == [row EXCEPT !["vehicle_id"] = <<>>]
                 Set(r) == [r EXCEPT !["targa"] = new["targa"],
                                     !["modello"] = new["modello"],
                                     !["anno"] = new["anno"],
                                     !["chilometraggio"] = new["chilometraggio"],
                                     !["stato"] = new["stato"],
                                     !["note"] = new["note"],
                                     !["aggiornato_il"] = DateOfIso(new["aggiornato_il"])]
                 rows == {Set(r) : r \in t1.rows}
             IN  IF ~Fits(new)
                 THEN [outcome |-> "data_error", table |-> t1, ret |-> None]
                 ELSE [outcome |-> "ok", table |-> [t1 EXCEPT !.rows = rows],
                       ret |-> Some(FromDict(row, c))]

\* MySQLVehicleStorage.update
MySQLUpdate(t, vehicle_id, changes, c) ==
    IF "vehicle_id" \in DOMAIN changes
    THEN [outcome |-> "type_error", table |-> t, ret |-> None]
    ELSE
    LET t1    == EnsureTable(t)
        found == {r \in t1.rows : r["vehicle_id"] = vehicle_id}
    IN  IF found = {}
        THEN [outcome |-> "not_found", table |-> t1, ret |-> None]
        ELSE LET row  == [SetAll(CHOOSE r \in found : TRUE, changes) EXCEPT
                             !["aggiornato_il"] = TodayIso(c)]
                 new  == [row EXCEPT !["vehicle_id"] = <<>>]
                 Set(r) == [r EXCEPT !["targa"] = new["targa"],
                                     !["modello"] = new["modello"],
                                     !["anno"] = new["anno"],
                                     !["chilometraggio"] = new["chilometraggio"],
                                     !["stato"] = new["stato"],
                                     !["note"] = new["note"],
                                     !["aggiornato_il"] = DateOfIso(new["aggiornato_il"])]
                 rows == {IF r["vehicle_id"] = vehicle_id THEN Set(r) ELSE r : r \in t1.rows}
             IN  IF ~Fits(new)
                 THEN [outcome |-> "data_error", table |-> t1, ret |-> None]
                 ELSE [outcome |-> "ok", table |-> [t1 EXCEPT !.rows = rows],
                       ret |-> Some(FromDict(row, c))]

\* remove that does not look at cursor.rowcount
MySQLRemoveNoRowcount(t, vehicle_id) ==
    LET t1 == EnsureTable(t) IN
    [outcome |-> "ok",
     table |-> [t1 EXCEPT !.rows = {r \in @ : r["vehicle_id"] # vehicle_id}],
     ret |-> None]

\* MySQLVehicleStorage.remove
MySQLRemove(t, vehicle_id) ==
    LET t1      == EnsureTable(t)
        deleted == {r \in t1.rows : r["vehicle_id"] = vehicle_id}
    IN  IF Cardinality(deleted) = 0
        THEN [outcome |-> "not_found", table |-> t1, ret |-> None]
        ELSE [outcome |-> "ok", table |-> [t1 EXCEPT !.rows = @ \ deleted], ret |-> None]

----------------------------------------------------------------------------
(* The storage contract (StorageProtocol), on whichever backend is in use *)

StorageLoad(b, f, t, c) ==
    IF b = "json"
    THEN {[file |-> f, table |-> t, ret |-> JsonLoad(f, c)]}
    ELSE {[file |-> f, table |-> EnsureTable(t), ret |-> l] : l \in MySQLLoad(t, c)}

StorageAdd(b, f, t, vehicle, c) ==
    IF b = "json"
    THEN LET r == JsonAdd(f, vehicle, c)
         IN  [outcome |-> r.outcome, file |-> r.file, table |-> t, ret |-> r.ret]
    ELSE LET r == MySQLAdd(t, vehicle, c)
         IN  [outcome |-> r.outcome, file |-> f, table |-> r.table, ret |-> r.ret]

StorageUpdate(b, f, t, vehicle_id, changes, c) ==
    IF b = "json"
    THEN LET r == JsonUpdate(f, vehicle_id, changes, c)
         IN  [outcome |-> r.outcome, file |-> r.file, table |-> t, ret |-> r.ret]
    ELSE LET r == MySQLUpdate(t, vehicle_id, changes, c)
         IN  [outcome |-> r.outcome, file |-> f, table |-> r.table, ret |-> r.ret]

StorageRemove(b, f, t, vehicle_id, c) ==
    IF b = "json"
    THEN LET r == JsonRemove(f, vehicle_id, c)
         IN  [outcome |-> r.outcome, file |-> r.file, table |-> t, ret |-> r.ret]
    ELSE LET r == MySQLRemove(t, vehicle_id)
         IN  [outcome |-> r.outcome, file |-> f, table |-> r.table, ret |-> r.ret]

----------------------------------------------------------------------------
(* Callers' inputs *)

V1 == <<"V", "1">>

V2 == <<"V", "2">>

V3 == <<"V", "3">>

IDs == {V1, V2, V3}

InManutenzione == <<"m", "a", "n">>

\* Vehicle(vehicle_id=..., targa=..., ...) with the aggiornato_il the caller
\* gives it: the default is the day of construction, any day can be passed
NewVehicle(id, d) ==
    [vehicle_id     |-> id,
     targa          |-> <<"A", "B">>,
     modello        |-> <<"P">>,
     anno           |-> 2020,
     chilometraggio |-> 15000,
     stato          |-> Disponibile,
     note           |-> <<>>,
     aggiornato_il  |-> IsoFormat(Today(d))]

VehiclesIn == {NewVehicle(id, d) : id \in IDs, d \in 1..MaxDay}

\* keyword arguments of an update call: none, one field, the fields the web
\* form and the CLI send (with a name that is no field), the date itself, and
\* the name of the positional parameter
ChangesIn ==
    { <<>>,
      [stato |-> InManutenzione],
      [targa |-> <<"C", "D">>, modello |-> <<"T">>, anno |-> 2021,
       chilometraggio |-> 20000, stato |-> InManutenzione, note |-> <<"n">>,
       colore |-> <<"r">>],
      [aggiornato_il |-> IsoFormat(Today(1)), stato |-> InManutenzione],
      [vehicle_id |-> V2, stato |-> InManutenzione] }

----------------------------------------------------------------------------
(* The storage layer called directly, one call at a time *)

NoAuth == [username |-> None, password |-> None]

NoSession == <<>>

NoResp == [route |-> "none"]

NoHistory == [onlyAdds |-> TRUE, added |-> <<>>]

Void == [onlyAdds |-> FALSE, added |-> <<>>]

\* no concurrent caller
NoProcs == <<>>

Snapshot == [file |-> file, table |-> table, session |-> session]

Init ==
    /\ backend \in {"json", "mysql"}
    /\ file = NoFile
    /\ table = NoTable
    /\ clock = 1
    /\ pre = [file |-> NoFile, table |-> NoTable, session |-> NoSession]
    /\ call = [op |-> "none"]
    /\ auth = NoAuth
    /\ session = NoSession
    /\ resp = NoResp
    /\ hist = NoHistory
    /\ procs = NoProcs
    /\ users = NoTable

\* no call is in progress and no result is held
Idle == call.op = "none" /\ resp.route = "none"

LoadCall ==
    /\ Idle
    /\ \E r \in StorageLoad(backend, file, table, clock) :
        /\ file' = r.file
        /\ table' = r.table
        /\ pre' = Snapshot
        /\ call' = [op |-> "load", outcome |-> "ok", ret |-> r.ret, day |-> clock]
        /\ UNCHANGED <<backend, clock, auth, session, resp, hist, procs, users>>

AddCall ==
    \E vehicle \in VehiclesIn :
        LET r == StorageAdd(backend, file, table, vehicle, clock) IN
        /\ Idle
        /\ file' = r.file
        /\ table' = r.table
        /\ pre' = Snapshot
        /\ call' = [op |-> "add", vehicle |-> vehicle, outcome |-> r.outcome,
                    ret |-> r.ret, day |-> clock]
        /\ hist' = IF hist.onlyAdds /\ r.outcome = "ok"
                   THEN [hist EXCEPT !.added = Append(@, vehicle)]
                   ELSE Void
        /\ UNCHANGED <<backend, clock, auth, session, resp, procs, users>>

UpdateCall ==
    \E vehicle_id \in IDs, changes \in ChangesIn :
        LET r == StorageUpdate(backend, file, table, vehicle_id, changes, clock) IN
        /\ Idle
        /\ file' = r.file
        /\ table' = r.table
        /\ pre' = Snapshot
        /\ call' = [op |-> "update", vehicle_id |-> vehicle_id, changes |-> changes,
                    outcome |-> r.outcome, ret |-> r.ret, day |-> clock]
        /\ hist' = Void
        /\ UNCHANGED <<backend, clock, auth, session, resp, procs, users>>

RemoveCall ==
    \E vehicle_id \in IDs :
        LET r == StorageRemove(backend, file, table, vehicle_id, clock) IN
        /\ Idle
        /\ file' = r.file
        /\ table' = r.table
        /\ pre' = Snapshot
        /\ call' = [op |-> "remove", vehicle_id |-> vehicle_id, outcome |-> r.outcome,
                    ret |-> r.ret, day |-> clock]
        /\ hist' = Void
        /\ UNCHANGED <<backend, clock, auth, session, resp, procs, users>>

\* the caller is done with the result of its call, the client with the answer
Return ==
    /\ ~Idle
    /\ call' = [op |-> "none"]
    /\ resp' = NoResp
    /\ pre' = Snapshot
    /\ UNCHANGED <<backend, file, table, clock, auth, session, hist, procs, users>>

\* midnight passes
Tick ==
    /\ Idle
    /\ clock < MaxDay
    /\ clock' = clock + 1
    /\ UNCHANGED <<backend, file, table, pre, call, auth, session, resp, hist, procs, users>>

Next == LoadCall \/ AddCall \/ UpdateCall \/ RemoveCall \/ Return \/ Tick

Spec == Init /\ [][Next]_vars

----------------------------------------------------------------------------
(* Web front end: create_app *)

\* the characters of the model in code point order; str comparison is by rank
Alphabet ==
    <<"\t", "\n", " ", "+", "-", "0", "1", "2", "3", "4", "5", "6", "7", "8", "9",
      "A", "B", "C", "D", "P", "T", "V", "_", "a", "d", "i", "m", "n", "p", "q",
      "r", "s", "x", "U+00E8">>

CodePoint(ch) == CHOOSE i \in 1..Len(Alphabet) : Alphabet[i] = ch

NonAsciiChars == {"U+00E8"}

IsAscii(s) == \A i \in 1..Len(s) : s[i] \notin NonAsciiChars

\* a < b on str
RECURSIVE TextLess(_, _)
TextLess(a, b) ==
    IF b = <<>> THEN FALSE
    ELSE IF a = <<>> THEN TRUE
    ELSE IF Head(a) = Head(b) THEN TextLess(Tail(a), Tail(b))
    ELSE CodePoint(Head(a)) < CodePoint(Head(b))

\* list.sort(key=lambda vehicle: vehicle.vehicle_id), stable
RECURSIVE SortById(_)
SortById(l) ==
    IF l = <<>> THEN <<>>
    ELSE LET rest == SortById(SubSeq(l, 1, Len(l) - 1))
             v    == l[Len(l)]
             n    == Cardinality({i \in 1..Len(rest) :
                         ~TextLess(v["vehicle_id"], rest[i]["vehicle_id"])})
         IN  SubSeq(rest, 1, n) \o <<v>> \o SubSeq(rest, n + 1, Len(rest))

\* hmac.compare_digest on two str: TypeError unless both are ASCII
CompareDigest(a, b) ==
    IF IsAscii(a) /\ IsAscii(b)
    THEN [raised |-> FALSE, equal |-> a = b]
    ELSE [raised |-> TRUE, equal |-> FALSE]

\* int(s) on a str: optional sign, digits with single underscores between
\* them, surrounding whitespace ignored; ValueError otherwise
PyInt(s) ==
    LET t      == Strip(s)
        signed == t # <<>> /\ Head(t) \in {"+", "-"}
        body   == IF signed THEN Tail(t) ELSE t
        IsUnd(i) == body[i] = "_"
        wellFormed ==
            /\ body # <<>>
            /\ \A i \in 1..Len(body) : IsDigit(body[i]) \/ IsUnd(i)
            /\ ~IsUnd(1) /\ ~IsUnd(Len(body))
            /\ \A i \in 1..(Len(body) - 1) : ~(IsUnd(i) /\ IsUnd(i + 1))
        NotUnd(ch) == ch # "_"
        magnitude == DigitsVal(SelectSeq(body, NotUnd))
    IN  IF ~wellFormed THEN [ok |-> FALSE, value |-> 0]
        ELSE [ok |-> TRUE,
              value |-> IF signed /\ Head(t) = "-" THEN 0 - magnitude ELSE magnitude]

\* AuthConfig.enabled
AuthEnabled(a) == Truthy(a.username) /\ Truthy(a.password)

\* session.get(key): None is falsy
SessionGet(s, key) == IF key \in DOMAIN s THEN s[key] ELSE FALSE

\* request.form.get(key, default)
FormGet(form, key, default) == IF key \in DOMAIN form THEN form[key] ELSE default

\* what a handler answers, with the storage it leaves and the storage
\* methods it called
Response(f, t, status, to, error, ops, body) ==
    [file |-> f, table |-> t, status |-> status, to |-> to, error |-> error,
     ops |-> ops, body |-> body, view |-> TRUE]

\* redirect(url_for("login", next=request.path)): the view is not called
RedirectToLogin(f, t) ==
    [file |-> f, table |-> t, status |-> 302, to |-> "redirect:login", error |-> None,
     ops |-> <<>>, body |-> <<>>, view |-> FALSE]

\* a route registered without the gate: the view always runs
LoginRequiredOpen(a, s, f, t, answers) == answers

\* login_required: answers is what the wrapped view would answer
LoginRequired(a, s, f, t, answers) ==
    IF ~AuthEnabled(a) THEN answers
    ELSE IF SessionGet(s, "logged_in") THEN answers
    ELSE {RedirectToLogin(f, t)}

\* login (GET /login)
LoginView(a, f, t) ==
    IF ~AuthEnabled(a)
    THEN Response(f, t, 302, "redirect:index", None, <<>>, <<>>)
    ELSE Response(f, t, 200, "login.html", None, <<>>, <<>>)

\* login_submit (POST /login): the session and the answer
LoginSubmit(a, s, f, t, form) ==
    IF ~AuthEnabled(a)
    THEN [session |-> s, resp |-> Response(f, t, 302, "redirect:index", None, <<>>, <<>>)]
    ELSE
    LET username == Strip(FormGet(form, "username", <<>>))
        password == FormGet(form, "password", <<>>)
        user     == CompareDigest(username, OrEmpty(a.username))
        pass     == CompareDigest(password, OrEmpty(a.password))
    IN  IF user.raised \/ (user.equal /\ pass.raised)
        THEN [session |-> s,
              resp |-> Response(f, t, 500, "TypeError", None, <<>>, <<>>)]
        ELSE IF user.equal /\ pass.equal
        THEN [session |-> SetAll(s, [logged_in |-> TRUE]),
              resp |-> Response(f, t, 302,
                          IF FormGet(form, "next", <<>>) # <<>>
                          THEN "redirect:next" ELSE "redirect:index",
                          None, <<>>, <<>>)]
        ELSE [session |-> s,
              resp |-> Response(f, t, 401, "login.html", Some("Credenziali non valide."),
                                <<>>, <<>>)]

\* logout (POST /logout): session.clear()
Logout(s, f, t) ==
    [session |-> <<>>, resp |-> Response(f, t, 302, "redirect:login", None, <<>>, <<>>)]

\* _find_vehicle on a loaded list
FindVehicle(l, vehicle_id) ==
    LET hits == {i \in 1..Len(l) : l[i]["vehicle_id"] = vehicle_id}
    IN  IF hits = {} THEN None
        ELSE Some(l[CHOOSE h \in hits : \A g \in hits : h <= g])

\* _vehicle_from_form without the test for empty required fields
VehicleFromFormNoRequired(form, url_id, c) ==
    LET stato   == Strip(FormGet(form, "stato", Disponibile))
        payload ==
            [vehicle_id     |-> IF Truthy(url_id) THEN url_id[1]
                                ELSE Strip(FormGet(form, "vehicle_id", <<>>)),
             targa          |-> Strip(FormGet(form, "targa", <<>>)),
             modello        |-> Strip(FormGet(form, "modello", <<>>)),
             anno           |-> Strip(FormGet(form, "anno", <<>>)),
             chilometraggio |-> Strip(FormGet(form, "chilometraggio", <<>>)),
             stato          |-> IF stato # <<>> THEN stato ELSE Disponibile,
             note           |-> Strip(FormGet(form, "note", <<>>)),
             aggiornato_il  |-> TodayIso(c)]
        anno    == PyInt(payload["anno"])
        km      == PyInt(payload["chilometraggio"])
    IN  IF ~anno.ok \/ ~km.ok
        THEN [vehicle |-> payload,
              error |-> Some("Anno e chilometraggio devono essere numeri.")]
        ELSE [vehicle |-> FromDict([payload EXCEPT !["anno"] = anno.value,
                                                   !["chilometraggio"] = km.value], c),
              error |-> None]

\* _vehicle_from_form at day c; url_id is the vehicle_id argument
VehicleFromForm(form, url_id, c) ==
    LET stato   == Strip(FormGet(form, "stato", Disponibile))
        payload ==
            [vehicle_id     |-> IF Truthy(url_id) THEN url_id[1]
                                ELSE Strip(FormGet(form, "vehicle_id", <<>>)),
             targa          |-> Strip(FormGet(form, "targa", <<>>)),
             modello        |-> Strip(FormGet(form, "modello", <<>>)),
             anno           |-> Strip(FormGet(form, "anno", <<>>)),
             chilometraggio |-> Strip(FormGet(form, "chilometraggio", <<>>)),
             stato          |-> IF stato # <<>> THEN stato ELSE Disponibile,
             note           |-> Strip(FormGet(form, "note", <<>>)),
             aggiornato_il  |-> TodayIso(c)]
        missing == {k \in {"vehicle_id", "targa", "modello", "anno", "chilometraggio"} :
                       payload[k] = <<>>}
        anno    == PyInt(payload["anno"])
        km      == PyInt(payload["chilometraggio"])
    IN  IF missing # {}
        THEN [vehicle |-> payload, error |-> Some("Completa tutti i campi obbligatori.")]
        ELSE IF ~anno.ok \/ ~km.ok
        THEN [vehicle |-> payload,
              error |-> Some("Anno e chilometraggio devono essere numeri.")]
        ELSE [vehicle |-> FromDict([payload EXCEPT !["anno"] = anno.value,
                                                   !["chilometraggio"] = km.value], c),
              error |-> None]

\* index (GET /)
IndexView(b, f, t, c) ==
    {Response(l.file, l.table, 200, "index.html", None, <<"load">>, SortById(l.ret)) :
        l \in StorageLoad(b, f, t, c)}

\* add_form (GET /add)
AddFormView(f, t) == {Response(f, t, 200, "form.html", None, <<>>, <<>>)}

\* add_vehicle (POST /add)
AddVehicleView(b, f, t, c, form) ==
    LET parsed == VehicleFromForm(form, None, c) IN
    IF parsed.error # None
    THEN {Response(f, t, 400, "form.html", parsed.error, <<>>, <<parsed.vehicle>>)}
    ELSE LET r == StorageAdd(b, f, t, parsed.vehicle, c) IN
         IF r.outcome = "duplicate"
         THEN {Response(r.file, r.table, 400, "form.html", Some("duplicate"), <<"add">>,
                        <<parsed.vehicle>>)}
         ELSE IF r.outcome = "ok"
         THEN {Response(r.file, r.table, 302, "redirect:index", None, <<"add">>, <<>>)}
         ELSE {Response(r.file, r.table, 500, r.outcome, None, <<"add">>, <<>>)}

\* edit_form (GET /edit/<vehicle_id>)
EditFormView(b, f, t, c, vehicle_id) ==
    {LET vehicle == FindVehicle(l.ret, vehicle_id) IN
     IF vehicle = None
     THEN Response(l.file, l.table, 404, "form.html", Some("Veicolo non trovato."),
                   <<"load">>, <<>>)
     ELSE Response(l.file, l.table, 200, "form.html", None, <<"load">>, vehicle) :
        l \in StorageLoad(b, f, t, c)}

\* edit_vehicle (POST /edit/<vehicle_id>)
EditVehicleView(b, f, t, c, vehicle_id, form) ==
    {LET existing == FindVehicle(l.ret, vehicle_id)
         parsed   == VehicleFromForm(form, Some(vehicle_id), c)
         updated  == parsed.vehicle
         r        == StorageUpdate(b, l.file, l.table, vehicle_id,
                        [targa          |-> updated["targa"],
                         modello        |-> updated["modello"],
                         anno           |-> updated["anno"],
                         chilometraggio |-> updated["chilometraggio"],
                         stato          |-> updated["stato"],
                         note           |-> updated["note"]], c)
     IN  IF existing = None
         THEN Response(l.file, l.table, 404, "form.html", Some("Veicolo non trovato."),
                       <<"load">>, <<>>)
         ELSE IF parsed.error # None
         THEN Response(l.file, l.table, 400, "form.html", parsed.error, <<"load">>,
                       <<updated>>)
         ELSE IF r.outcome = "ok"
         THEN Response(r.file, r.table, 302, "redirect:index", None,
                       <<"load", "update">>, <<>>)
         ELSE Response(r.file, r.table, 500, r.outcome, None, <<"load", "update">>, <<>>) :
        l \in StorageLoad(b, f, t, c)}

\* delete_vehicle (POST /delete/<vehicle_id>): a ValueError is passed over
DeleteVehicleView(b, f, t, c, vehicle_id) ==
    LET r == StorageRemove(b, f, t, vehicle_id, c) IN
    {Response(r.file, r.table, 302, "redirect:index", None, <<"remove">>, <<>>)}

----------------------------------------------------------------------------
(* The web application serving one client, one request at a time *)

Admin == <<"a", "d">>

\* AuthConfig values create_app can be given
AuthConfigs ==
    { [username |-> None,        password |-> None],
      [username |-> Some(Admin), password |-> None],
      [username |-> Some(<<>>),  password |-> Some(<<"p">>)],
      [username |-> Some(Admin), password |-> Some(<<"p">>)],
      [username |-> Some(Admin), password |-> Some(<<"p", "U+00E8">>)] }

\* login forms a client can post
LoginForms ==
    { [username |-> Admin, password |-> <<"p">>],
      [username |-> <<" ">> \o Admin \o <<" ">>, password |-> <<"p">>, next |-> <<"x">>],
      [username |-> Admin, password |-> <<"q">>],
      [username |-> Admin, password |-> <<" ", "p">>],
      [username |-> Admin, password |-> <<"p", "U+00E8">>],
      [username |-> <<"U+00E8">>, password |-> <<"p">>],
      [password |-> <<"p">>] }

\* the <vehicle_id> segment of an edit or delete URL
UrlIds == {V1, V2}

Y2020 == <<"2", "0", "2", "0">>

\* vehicle forms a client can post: complete, padded with blanks, with a
\* blank required field, with a required field left out, with a year or a
\* mileage that is no number
VehicleForms ==
    { [vehicle_id |-> id, targa |-> <<"A", "B">>, modello |-> <<"P">>, anno |-> Y2020,
       chilometraggio |-> <<"1", "5">>] : id \in UrlIds }
    \cup
    { [vehicle_id |-> <<" ">> \o V1 \o <<"\t">>, targa |-> <<"C", "D", " ">>,
       modello |-> <<"T">>, anno |-> <<" ", "+", "2", "0", "2", "1">>,
       chilometraggio |-> <<"2", "_", "0">>, stato |-> <<" ">>, note |-> <<"n", " ">>],
      [vehicle_id |-> V2, targa |-> <<"C", "D">>, modello |-> <<"T">>,
       anno |-> <<"2", "0", "2", "1">>, chilometraggio |-> <<"2", "0">>,
       stato |-> InManutenzione, note |-> <<"n">>],
      [vehicle_id |-> V1, targa |-> <<" ">>, modello |-> <<"P">>, anno |-> Y2020,
       chilometraggio |-> <<"1", "5">>],
      [vehicle_id |-> V1, targa |-> <<"A", "B">>, anno |-> Y2020,
       chilometraggio |-> <<"1", "5">>],
      [vehicle_id |-> V1, targa |-> <<"A", "B">>, modello |-> <<"P">>,
       anno |-> <<"2", "x">>, chilometraggio |-> <<"1", "5">>],
      [vehicle_id |-> V2, targa |-> <<"A", "B">>, modello |-> <<"P">>, anno |-> Y2020,
       chilometraggio |-> <<"1", "_">>],
      [targa |-> <<"E", "F">>, modello |-> <<"P">>, anno |-> Y2020,
       chilometraggio |-> <<"1", "5">>] }

InitWeb ==
    /\ backend \in {"json", "mysql"}
    /\ file = NoFile
    /\ table = NoTable
    /\ clock = 1
    /\ pre = [file |-> NoFile, table |-> NoTable, session |-> NoSession]
    /\ call = [op |-> "none"]
    /\ auth \in AuthConfigs
    /\ session = NoSession
    /\ resp = NoResp
    /\ hist = NoHistory
    /\ procs = NoProcs
    /\ users = NoTable

\* the request and its answer, as the client and the claims see them
Served(route, vehicle_id, form, r) ==
    [route |-> route, vehicle_id |-> vehicle_id, form |-> form, status |-> r.status,
     to |-> r.to, error |-> r.error, ops |-> r.ops, body |-> r.body, view |-> r.view]

\* a request that leaves the session alone
Serve(route, vehicle_id, form, answers) ==
    /\ Idle
    /\ \E r \in answers :
        /\ file' = r.file
        /\ table' = r.table
        /\ pre' = Snapshot
        /\ resp' = Served(route, vehicle_id, form, r)
        /\ UNCHANGED <<backend, clock, call, auth, session, hist, procs, users>>

GetLogin == Serve("login", None, <<>>, {LoginView(auth, file, table)})

PostLogin ==
    \E form \in LoginForms :
        LET r == LoginSubmit(auth, session, file, table, form) IN
        /\ Idle
        /\ session' = r.session
        /\ pre' = Snapshot
        /\ resp' = Served("login_submit", None, form, r.resp)
        /\ UNCHANGED <<backend, file, table, clock, call, auth, hist, procs, users>>

PostLogout ==
    LET r == Logout(session, file, table) IN
    /\ Idle
    /\ session' = r.session
    /\ pre' = Snapshot
    /\ resp' = Served("logout", None, <<>>, r.resp)
    /\ UNCHANGED <<backend, file, table, clock, call, auth, hist, procs, users>>

GetIndex ==
    Serve("index", None, <<>>,
          LoginRequired(auth, session, file, table, IndexView(backend, file, table, clock)))

GetAddForm ==
    Serve("add_form", None, <<>>,
          LoginRequired(auth, session, file, table, AddFormView(file, table)))

PostAdd ==
    \E form \in VehicleForms :
        Serve("add_vehicle", None, form,
              LoginRequired(auth, session, file, table,
                            AddVehicleView(backend, file, table, clock, form)))

GetEditForm ==
    \E vehicle_id \in UrlIds :
        Serve("edit_form", Some(vehicle_id), <<>>,
              LoginRequired(auth, session, file, table,
                            EditFormView(backend, file, table, clock, vehicle_id)))

PostEdit ==
    \E vehicle_id \in UrlIds, form \in VehicleForms :
        Serve("edit_vehicle", Some(vehicle_id), form,
              LoginRequired(auth, session, file, table,
                            EditVehicleView(backend, file, table, clock, vehicle_id, form)))

PostDelete ==
    \E vehicle_id \in UrlIds :
        Serve("delete_vehicle", Some(vehicle_id), <<>>,
              LoginRequired(auth, session, file, table,
                            DeleteVehicleView(backend, file, table, clock, vehicle_id)))

NextWeb ==
    \/ GetLogin \/ PostLogin \/ PostLogout
    \/ GetIndex \/ GetAddForm \/ PostAdd \/ GetEditForm \/ PostEdit \/ PostDelete
    \/ Return \/ Tick

SpecWeb == InitWeb /\ [][NextWeb]_vars

----------------------------------------------------------------------------
(* What the claims speak of *)

IdsOfFile(f) == {f.items[i]["vehicle_id"] : i \in 1..Len(f.items)}

IdsOfTable(t) == {r["vehicle_id"] : r \in t.rows}

StoreIds(f, t) == IF backend = "json" THEN IdsOfFile(f) ELSE IdsOfTable(t)

\* the sequence of ids in the file, in file order
IdSeqOfFile(f) == [i \in 1..Len(f.items) |-> f.items[i]["vehicle_id"]]

\* the record stored under id, with the date as the ISO string load gives
StoredRecord(f, t, id) ==
    IF backend = "json"
    THEN f.items[CHOOSE i \in 1..Len(f.items) : f.items[i]["vehicle_id"] = id]
    ELSE LET r == CHOOSE x \in t.rows : x["vehicle_id"] = id
         IN  [r EXCEPT !["aggiornato_il"] = IsoFormat(r["aggiornato_il"])]

\* the file and the rows of the table are what they were before the call
StoreUnchanged == file = pre.file /\ table.rows = pre.table.rows

WasPresent(id) == id \in StoreIds(pre.file, pre.table)

----------------------------------------------------------------------------
(* C1..C8: the storage contract, calls made one at a time *)

\* C1: after any sequence of add, update and remove calls run one at a
\* time, on either backend, no two records of the store have the same
\* vehicle_id.
C1_UniqueVehicleId ==
    /\ \A i, j \in 1..Len(file.items) :
          file.items[i]["vehicle_id"] = file.items[j]["vehicle_id"] => i = j
    /\ \A r1, r2 \in table.rows : r1["vehicle_id"] = r2["vehicle_id"] => r1 = r2

\* three records are stored and the last call was an add refused as duplicate
C1_Witness ==
    /\ call.op = "add" /\ call.outcome = "duplicate"
    /\ Cardinality(StoreIds(file, table)) = 3

\* C2: add of a vehicle whose vehicle_id is already in the store fails with
\* the duplicate-identifier error and the store (records, fields, order) is
\* what it was before the call.
C2_AddDuplicateRefused ==
    (call.op = "add" /\ WasPresent(call.vehicle["vehicle_id"]))
        => (call.outcome = "duplicate" /\ StoreUnchanged)

\* a duplicate add whose record differs from the stored one with that id
C2_Witness ==
    /\ call.op = "add" /\ WasPresent(call.vehicle["vehicle_id"])
    /\ call.outcome = "duplicate"
    /\ StoredRecord(file, table, call.vehicle["vehicle_id"]) # AsDict(call.vehicle)
    /\ Cardinality(StoreIds(file, table)) >= 2

\* C3: update(id, changes) on an id in the store succeeds; in the record
\* stored under id every field named in changes has the given value,
\* aggiornato_il aside, and every field not named keeps its value; every
\* other record is unchanged and stays in place; the returned record equals
\* the stored one.  (changes is what **changes binds: it never holds the
\* name vehicle_id.)
C3_UpdateFrame ==
    (call.op = "update" /\ WasPresent(call.vehicle_id)
        /\ "vehicle_id" \notin DOMAIN call.changes)
    => /\ call.outcome = "ok"
       /\ LET old == StoredRecord(pre.file, pre.table, call.vehicle_id)
              new == StoredRecord(file, table, call.vehicle_id)
          IN  /\ \A k \in Fields \ {"aggiornato_il"} :
                    new[k] = IF k \in DOMAIN call.changes THEN call.changes[k] ELSE old[k]
              /\ VehicleEq(call.ret[1], new)
       /\ IdSeqOfFile(file) = IdSeqOfFile(pre.file)
       /\ \A i \in 1..Len(pre.file.items) :
             pre.file.items[i]["vehicle_id"] # call.vehicle_id
                => file.items[i] = pre.file.items[i]
       /\ {r \in table.rows : r["vehicle_id"] # call.vehicle_id}
             = {r \in pre.table.rows : r["vehicle_id"] # call.vehicle_id}
       /\ IdsOfTable(table) = IdsOfTable(pre.table)

\* an update of one field of one of three records
C3_Witness ==
    /\ call.op = "update" /\ call.outcome = "ok"
    /\ DOMAIN call.changes = {"stato"}
    /\ Cardinality(StoreIds(file, table)) = 3
    /\ StoredRecord(pre.file, pre.table, call.vehicle_id)["stato"] = Disponibile
    /\ StoredRecord(file, table, call.vehicle_id)["stato"] = InManutenzione

\* C4: update(id, changes) on an id not in the store fails with the
\* not-found error, whatever changes is, and the store is what it was.
C4_UpdateAbsent ==
    (call.op = "update" /\ ~WasPresent(call.vehicle_id))
    => /\ StoreUnchanged
       /\ call.outcome # "ok"
       /\ "vehicle_id" \notin DOMAIN call.changes => call.outcome = "not_found"

\* an update of an absent id refused while other records are stored
C4_Witness ==
    /\ call.op = "update" /\ ~WasPresent(call.vehicle_id)
    /\ call.outcome = "not_found"
    /\ DOMAIN call.changes # {}
    /\ StoreIds(file, table) # {}

\* C5: remove(id) of an id in the store deletes the record with that id and
\* nothing else, the others keeping their order in the file; remove of an
\* absent id fails with the not-found error and changes nothing.
C5_Remove ==
    call.op = "remove" =>
        IF WasPresent(call.vehicle_id)
        THEN /\ call.outcome = "ok"
             /\ LET Keep(d) == d["vehicle_id"] # call.vehicle_id
                IN  file.items = SelectSeq(pre.file.items, Keep)
             /\ table.rows = {r \in pre.table.rows : r["vehicle_id"] # call.vehicle_id}
             /\ ~(call.vehicle_id \in StoreIds(file, table))
        ELSE call.outcome = "not_found" /\ StoreUnchanged

\* the middle one of three records of the file was removed
C5_Witness ==
    /\ call.op = "remove" /\ call.outcome = "ok"
    /\ Len(pre.file.items) = 3
    /\ pre.file.items[2]["vehicle_id"] = call.vehicle_id
    /\ Len(file.items) = 2

\* C6: from the empty store, after adds of pairwise distinct ids, load
\* returns the added records and no other, each equal in every field to the
\* record given to add, in the order of the adds on the flat file; with no
\* add at all it returns the empty list.
C6_LoadReturnsAdded ==
    (call.op = "load" /\ hist.onlyAdds)
    => /\ call.outcome = "ok"
       /\ Len(call.ret) = Len(hist.added)
       /\ backend = "json" => call.ret = hist.added
       /\ {call.ret[i] : i \in 1..Len(call.ret)}
             = {hist.added[i] : i \in 1..Len(hist.added)}

\* a load after three adds, one of a record not dated with the day of the add
C6_Witness ==
    /\ call.op = "load" /\ hist.onlyAdds
    /\ Len(hist.added) = 3
    /\ hist.added[1]["aggiornato_il"] # TodayIso(call.day)
    /\ hist.added[1]["aggiornato_il"] # hist.added[2]["aggiornato_il"]

\* C7: vehicle_id never changes: after any update call, whatever names its
\* keywords hold, the ids of the store are what they were, each in its place.
C7_IdImmutable ==
    call.op = "update"
    => /\ IdSeqOfFile(file) = IdSeqOfFile(pre.file)
       /\ IdsOfTable(table) = IdsOfTable(pre.table)

\* an update was called with a keyword named vehicle_id on a stored id
C7_Witness ==
    /\ call.op = "update" /\ WasPresent(call.vehicle_id)
    /\ "vehicle_id" \in DOMAIN call.changes
    /\ call.changes["vehicle_id"] # call.vehicle_id
    /\ call.outcome = "type_error"

\* C8 as stated: after a successful add or update the stored aggiornato_il
\* of that record is the day of the call, whatever date the added record
\* carries.
C8_StampedOnAddAndUpdate ==
    (call.op \in {"add", "update"} /\ call.outcome = "ok")
    => LET id == IF call.op = "add" THEN call.vehicle["vehicle_id"] ELSE call.vehicle_id
       IN  StoredRecord(file, table, id)["aggiornato_il"] = TodayIso(call.day)

\* C8 amended: after a successful update the stored aggiornato_il of the
\* record is the day of the call, also with no changes, with changes that
\* repeat the stored values or that name aggiornato_il; after a successful
\* add it is the date the record given to add carries.
C8_StampedOnUpdate ==
    /\ (call.op = "update" /\ call.outcome = "ok")
          => StoredRecord(file, table, call.vehicle_id)["aggiornato_il"]
                = TodayIso(call.day)
    /\ (call.op = "add" /\ call.outcome = "ok")
          => StoredRecord(file, table, call.vehicle["vehicle_id"])["aggiornato_il"]
                = call.vehicle["aggiornato_il"]

\* an update naming an older aggiornato_il, on a later day
C8_Witness ==
    /\ call.op = "update" /\ call.outcome = "ok"
    /\ "aggiornato_il" \in DOMAIN call.changes
    /\ call.changes["aggiornato_il"] # TodayIso(call.day)
    /\ StoredRecord(pre.file, pre.table, call.vehicle_id)["aggiornato_il"]
          # TodayIso(call.day)

----------------------------------------------------------------------------
(* C9, C10: the login gate of the web application *)

VehicleRoutes ==
    {"index", "add_form", "add_vehicle", "edit_form", "edit_vehicle", "delete_vehicle"}

\* the session carries the authenticated flag
Flagged(s) == "logged_in" \in DOMAIN s /\ s["logged_in"] = TRUE

\* both a username and a password are configured and neither is empty
Configured ==
    /\ auth.username # None /\ auth.username[1] # <<>>
    /\ auth.password # None /\ auth.password[1] # <<>>

\* C9: with authentication enabled, a request to a vehicle route runs its
\* view, and so its storage calls, only if the session carries the flag;
\* without the flag it is redirected to the login page and no storage
\* method is called.  With authentication disabled every vehicle route
\* runs, flag or no flag.
C9_AuthGate ==
    resp.route \in VehicleRoutes =>
        IF Configured /\ ~Flagged(pre.session)
        THEN /\ ~resp.view
             /\ resp.status = 302 /\ resp.to = "redirect:login"
             /\ resp.ops = <<>>
             /\ file = pre.file /\ table = pre.table
        ELSE /\ resp.view
             /\ resp.to # "redirect:login"
             /\ resp.route \in {"index", "edit_form", "edit_vehicle", "delete_vehicle"}
                   => resp.ops # <<>>

\* without the flag, the delete of a stored vehicle is redirected to login
C9_Witness ==
    /\ resp.route = "delete_vehicle"
    /\ Configured /\ ~Flagged(session)
    /\ resp.vehicle_id[1] \in StoreIds(file, table)
    /\ resp.to = "redirect:login"

\* C10 as stated: with authentication enabled, a login request sets the
\* flag if and only if the submitted username and password each equal the
\* configured ones, a failed login leaves the session as it was, logout
\* clears the flag, and without the flag the vehicle routes are redirected
\* to login.
C10_LoginIffEqual ==
    Configured =>
        /\ resp.route = "login_submit" =>
              LET submittedUser == IF "username" \in DOMAIN resp.form
                                   THEN resp.form["username"] ELSE <<>>
                  submittedPass == IF "password" \in DOMAIN resp.form
                                   THEN resp.form["password"] ELSE <<>>
              IN  IF submittedUser = auth.username[1] /\ submittedPass = auth.password[1]
                  THEN Flagged(session)
                  ELSE session = pre.session
        /\ resp.route = "logout" => ~Flagged(session)
        /\ (resp.route \in VehicleRoutes /\ ~Flagged(pre.session))
              => resp.to = "redirect:login"

\* C10, the part of it the comparison breaks: with authentication enabled,
\* a login request whose submitted username and password each equal the
\* configured ones sets the authenticated flag.
C10_EqualPairSetsFlag ==
    (/\ Configured
     /\ resp.route = "login_submit"
     /\ "username" \in DOMAIN resp.form /\ resp.form["username"] = auth.username[1]
     /\ "password" \in DOMAIN resp.form /\ resp.form["password"] = auth.password[1])
    => Flagged(session)

----------------------------------------------------------------------------
(* The storage calls step by step: what a call reads, what it writes *)

\* VehicleStorage.add up to self.save: the list the call holds
JsonAddRead(f, vehicle, c) ==
    LET vehicles == JsonLoad(f, c) IN
    IF \E i \in 1..Len(vehicles) : vehicles[i]["vehicle_id"] = vehicle["vehicle_id"]
    THEN [outcome |-> "duplicate", local |-> vehicles, ret |-> None]
    ELSE [outcome |-> "pending", local |-> Append(vehicles, vehicle), ret |-> None]

\* update that holds, and then saves, the updated record alone
JsonUpdateReadOne(f, vehicle_id, changes, c) ==
    IF "vehicle_id" \in DOMAIN changes
    THEN [outcome |-> "type_error", local |-> <<>>, ret |-> None]
    ELSE
    LET vehicles == JsonLoad(f, c)
        hits     == {i \in 1..Len(vehicles) : vehicles[i]["vehicle_id"] = vehicle_id}
    IN  IF hits = {}
        THEN [outcome |-> "not_found", local |-> vehicles, ret |-> None]
        ELSE LET i   == CHOOSE h \in hits : \A g \in hits : h <= g
                 obj == [SetAll(vehicles[i], changes) EXCEPT
                            !["aggiornato_il"] = TodayIso(c)]
             IN  [outcome |-> "pending", local |-> <<obj>>, ret |-> Some(obj)]

\* VehicleStorage.update up to self.save
JsonUpdateRead(f, vehicle_id, changes, c) ==
    IF "vehicle_id" \in DOMAIN changes
    THEN [outcome |-> "type_error", local |-> <<>>, ret |-> None]
    ELSE
    LET vehicles == JsonLoad(f, c)
        hits     == {i \in 1..Len(vehicles) : vehicles[i]["vehicle_id"] = vehicle_id}
    IN  IF hits = {}
        THEN [outcome |-> "not_found", local |-> vehicles, ret |-> None]
        ELSE LET i   == CHOOSE h \in hits : \A g \in hits : h <= g
                 obj == [SetAll(vehicles[i], changes) EXCEPT
                            !["aggiornato_il"] = TodayIso(c)]
                 all == [j \in 1..Len(vehicles) |-> IF j = i THEN obj ELSE vehicles[j]]
             IN  [outcome |-> "pending", local |-> all, ret |-> Some(obj)]

\* VehicleStorage.remove up to self.save
JsonRemoveRead(f, vehicle_id, c) ==
    LET vehicles == JsonLoad(f, c)
        Keep(v)  == v["vehicle_id"] # vehicle_id
        filtered == SelectSeq(vehicles, Keep)
    IN  IF Len(filtered) = Len(vehicles)
        THEN [outcome |-> "not_found", local |-> vehicles, ret |-> None]
        ELSE [outcome |-> "pending", local |-> filtered, ret |-> None]

\* save that reads the file again and keeps the records of other ids in it
JsonWriteMerged(f, vehicles) ==
    LET mine     == {vehicles[i]["vehicle_id"] : i \in 1..Len(vehicles)}
        Other(d) == d["vehicle_id"] \notin mine
    IN  [exists |-> TRUE,
         items |-> SelectSeq(f.items, Other) \o
                   [i \in 1..Len(vehicles) |-> AsDict(vehicles[i])]]

\* save that opens the file for appending: the records already in the file
\* stay, the list the call holds follows them
JsonWriteAppend(f, vehicles) ==
    [exists |-> TRUE,
     items |-> f.items \o [i \in 1..Len(vehicles) |-> AsDict(vehicles[i])]]

\* self.save(...), the last storage statement of add, update and remove: the
\* file becomes the list the call holds
JsonWrite(f, vehicles) == JsonSave(vehicles)

\* MySQLVehicleStorage.add up to the INSERT: table creation and SELECT COUNT(*)
MySQLAddCount(t, vehicle) ==
    LET t1    == EnsureTable(t)
        count == Cardinality({r \in t1.rows : r["vehicle_id"] = vehicle["vehicle_id"]})
    IN  IF count > 0
        THEN [outcome |-> "duplicate", table |-> t1, local |-> <<>>, ret |-> None]
        ELSE [outcome |-> "pending", table |-> t1, local |-> vehicle, ret |-> None]

\* the INSERT of MySQLVehicleStorage.add and its commit; the exception of
\* the statement leaves the method as it is
MySQLAddInsert(t, vehicle) ==
    LET ins == SqlInsert(t, vehicle)
    IN  [outcome |-> ins.outcome, table |-> ins.table, ret |-> None]

\* MySQLVehicleStorage.update up to the UPDATE: the SELECT and the row in hand
MySQLUpdateSelect(t, vehicle_id, changes, c) ==
    IF "vehicle_id" \in DOMAIN changes
    THEN [outcome |-> "type_error", table |-> t, local |-> <<>>, ret |-> None]
    ELSE
    LET t1    == EnsureTable(t)
        found == {r \in t1.rows : r["vehicle_id"] = vehicle_id}
    IN  IF found = {}
        THEN [outcome |-> "not_found", table |-> t1, local |-> <<>>, ret |-> None]
        ELSE LET row == [SetAll(CHOOSE r \in found : TRUE, changes) EXCEPT
                            !["aggiornato_il"] = TodayIso(c)]
             IN  [outcome |-> "pending", table |-> t1, local |-> row, ret |-> None]

\* update whose SET list leaves out the targa column
MySQLUpdateWriteNoTarga(t, vehicle_id, row, c) ==
    LET new    == [row EXCEPT !["vehicle_id"] = <<>>]
        Set(r) == [r EXCEPT !["modello"] = new["modello"],
                            !["anno"] = new["anno"],
                            !["chilometraggio"] = new["chilometraggio"],
                            !["stato"] = new["stato"],
                            !["note"] = new["note"],
                            !["aggiornato_il"] = DateOfIso(new["aggiornato_il"])]
        hit    == {r \in t.rows : r["vehicle_id"] = vehicle_id}
        rows   == {IF r \in hit THEN Set(r) ELSE r : r \in t.rows}
    IN  IF hit # {} /\ ~Fits(new)
        THEN [outcome |-> "data_error", table |-> t, ret |-> None]
        ELSE [outcome |-> "ok", table |-> [t EXCEPT !.rows = rows],
              ret |-> Some(FromDict(row, c))]

\* update that writes with REPLACE INTO: the row is put back when it is gone
MySQLUpdateWriteReplace(t, vehicle_id, row, c) ==
    [outcome |-> "ok",
     table |-> [t EXCEPT !.rows = {r \in @ : r["vehicle_id"] # vehicle_id} \cup
                                  {RowOf([row EXCEPT !["vehicle_id"] = vehicle_id])}],
     ret |-> Some(FromDict(row, c))]

\* the UPDATE ... WHERE vehicle_id = %s of MySQLVehicleStorage.update, its
\* commit and the return: the rows matched are not counted
MySQLUpdateWrite(t, vehicle_id, row, c) ==
    LET new    == [row EXCEPT !["vehicle_id"] = <<>>]
        Set(r) == [r EXCEPT !["targa"] = new["targa"],
                            !["modello"] = new["modello"],
                            !["anno"] = new["anno"],
                            !["chilometraggio"] = new["chilometraggio"],
                            !["stato"] = new["stato"],
                            !["note"] = new["note"],
                            !["aggiornato_il"] = DateOfIso(new["aggiornato_il"])]
        hit    == {r \in t.rows : r["vehicle_id"] = vehicle_id}
        rows   == {IF r \in hit THEN Set(r) ELSE r : r \in t.rows}
    IN  IF hit # {} /\ ~Fits(new)
        THEN [outcome |-> "data_error", table |-> t, ret |-> None]
        ELSE [outcome |-> "ok", table |-> [t EXCEPT !.rows = rows],
              ret |-> Some(FromDict(row, c))]

\* the first step of a call on whichever backend: it ends the call ("ok" or
\* an error) or leaves it pending on its write
StorageRead(b, f, t, op, vehicle_id, arg, c) ==
    IF b = "json"
    THEN LET r == CASE op = "add"    -> JsonAddRead(f, arg, c)
                    [] op = "update" -> JsonUpdateRead(f, vehicle_id, arg, c)
                    [] op = "remove" -> JsonRemoveRead(f, vehicle_id, c)
         IN  [outcome |-> r.outcome, file |-> f, table |-> t, local |-> r.local,
              ret |-> r.ret]
    ELSE LET r == CASE op = "add"    -> MySQLAddCount(t, arg)
                    [] op = "update" -> MySQLUpdateSelect(t, vehicle_id, arg, c)
                    [] op = "remove" ->
                        LET m == MySQLRemove(t, vehicle_id)
                        IN  [outcome |-> m.outcome, table |-> m.table,
                             local |-> <<>>, ret |-> m.ret]
         IN  [outcome |-> r.outcome, file |-> f, table |-> r.table, local |-> r.local,
              ret |-> r.ret]

\* the last step of a pending call
StorageWrite(b, f, t, op, vehicle_id, local, c) ==
    IF b = "json"
    THEN [outcome |-> "ok", file |-> JsonWrite(f, local), table |-> t, ret |-> None]
    ELSE LET r == IF op = "add" THEN MySQLAddInsert(t, local)
                  ELSE MySQLUpdateWrite(t, vehicle_id, local, c)
         IN  [outcome |-> r.outcome, file |-> f, table |-> r.table, ret |-> r.ret]

----------------------------------------------------------------------------
(* Two processes calling the same store, their steps interleaved *)

Procs == {"p1", "p2"}

ConcIds == {V1, V2}

\* the records the callers add: built on the day of the call
ConcVehicles == {NewVehicle(id, clock) : id \in ConcIds}

ConcChanges == {[stato |-> InManutenzione], [targa |-> <<"C", "D">>]}

\* a process that is in no call.  pc: "idle", "pending" (the call has read
\* and not yet written) or "done" (the caller holds the result); overlap
\* and stale are history: the processes that were pending while this call
\* was, and whether a call that has returned since wrote after this one read
IdleProc ==
    [pc |-> "idle", op |-> "none", vehicle_id |-> <<>>, arg |-> <<>>, local |-> <<>>,
     outcome |-> "none", ret |-> None, overlap |-> {}, stale |-> FALSE]

InitConc ==
    /\ backend \in {"json", "mysql"}
    /\ file = NoFile
    /\ table = NoTable
    /\ clock = 1
    /\ pre = [file |-> NoFile, table |-> NoTable, session |-> NoSession]
    /\ call = [op |-> "none"]
    /\ auth = NoAuth
    /\ session = NoSession
    /\ resp = NoResp
    /\ hist = NoHistory
    /\ procs = [p \in Procs |-> IdleProc]
    /\ users = NoTable

\* process p runs the first step of a call
Begin(p, op, vehicle_id, arg) ==
    LET r       == StorageRead(backend, file, table, op, vehicle_id, arg, clock)
        pending == {q \in Procs \ {p} : procs[q].pc = "pending"}
        mine    == [pc |-> IF r.outcome = "pending" THEN "pending" ELSE "done",
                    op |-> op, vehicle_id |-> vehicle_id, arg |-> arg,
                    local |-> r.local, outcome |-> r.outcome, ret |-> r.ret,
                    overlap |-> pending, stale |-> FALSE]
    IN  /\ procs[p].pc = "idle"
        /\ file' = r.file
        /\ table' = r.table
        /\ procs' = [q \in Procs |->
                        IF q = p THEN mine
                        ELSE IF q \in pending
                             THEN [procs[q] EXCEPT !.overlap = @ \cup {p}]
                             ELSE procs[q]]
        /\ UNCHANGED <<backend, clock, pre, call, auth, session, resp, hist, users>>

AddBegin ==
    \E p \in Procs, vehicle \in ConcVehicles :
        Begin(p, "add", vehicle["vehicle_id"], vehicle)

UpdateBegin ==
    \E p \in Procs, vehicle_id \in ConcIds, changes \in ConcChanges :
        Begin(p, "update", vehicle_id, changes)

RemoveBegin ==
    \E p \in Procs, vehicle_id \in ConcIds : Begin(p, "remove", vehicle_id, <<>>)

\* a pending call runs its write and returns
WriteStep ==
    \E p \in Procs :
        LET me == procs[p]
            r  == StorageWrite(backend, file, table, me.op, me.vehicle_id, me.local, clock)
        IN  /\ me.pc = "pending"
            /\ file' = r.file
            /\ table' = r.table
            /\ procs' = [procs EXCEPT ![p] =
                            [me EXCEPT !.pc = "done", !.outcome = r.outcome,
                                       !.ret = IF backend = "json" THEN me.ret ELSE r.ret]]
            /\ UNCHANGED <<backend, clock, pre, call, auth, session, resp, hist, users>>

\* the caller is done with the result of its call
ReturnConc ==
    \E p \in Procs :
        /\ procs[p].pc = "done"
        /\ procs' = [q \in Procs |->
                        IF q = p THEN IdleProc
                        ELSE [procs[q] EXCEPT
                                 !.overlap = @ \ {p},
                                 !.stale = @ \/ (/\ procs[q].pc = "pending"
                                                 /\ p \in procs[q].overlap
                                                 /\ procs[p].outcome = "ok")]]
        /\ UNCHANGED <<backend, file, table, clock, pre, call, auth, session, resp, hist,
                       users>>

NextConc == AddBegin \/ UpdateBegin \/ RemoveBegin \/ WriteStep \/ ReturnConc

SpecConc == InitConc /\ [][NextConc]_vars

----------------------------------------------------------------------------
(* C11, C17..C19: concurrent callers *)

\* the calls p and q hold the results of were, at one time, both between
\* their read and their write
Raced(p, q) ==
    /\ p # q
    /\ procs[p].pc = "done" /\ procs[q].pc = "done"
    /\ q \in procs[p].overlap /\ p \in procs[q].overlap

\* two add calls for one id that both ran their check before either wrote
AddRace(p, q) ==
    /\ Raced(p, q)
    /\ procs[p].op = "add" /\ procs[q].op = "add"
    /\ procs[p].vehicle_id = procs[q].vehicle_id
    /\ procs[p].outcome # "duplicate" /\ procs[q].outcome # "duplicate"

RowsWithId(id) == {r \in table.rows : r["vehicle_id"] = id}

\* C11: on the relational backend the table never holds two rows with one
\* vehicle_id, and when two add calls for the same id both run the existence
\* count before either inserts, one of them succeeds and the other fails with
\* the duplicate-identifier error a sequential duplicate add gives.
C11_PrimaryKeyGuard ==
    backend = "mysql" =>
        /\ \A id \in ConcIds : Cardinality(RowsWithId(id)) <= 1
        /\ \A p, q \in Procs :
               AddRace(p, q) =>
                   {procs[p].outcome, procs[q].outcome} = {"ok", "duplicate"}

\* the part of C11 the code keeps: one row at most, one success exactly
C11_OneRowOneSuccess ==
    backend = "mysql" =>
        /\ \A id \in ConcIds : Cardinality(RowsWithId(id)) <= 1
        /\ \A p, q \in Procs :
               AddRace(p, q) =>
                   /\ Cardinality({x \in {p, q} : procs[x].outcome = "ok"}) = 1
                   /\ Cardinality(RowsWithId(procs[p].vehicle_id)) = 1

\* two calls that both read before either wrote, with no write of a third
\* call between the two reads, and that both went past their checks
BothWrote(p, q, ops) ==
    /\ Raced(p, q)
    /\ ~procs[p].stale /\ ~procs[q].stale
    /\ procs[p].op \in ops /\ procs[q].op \in ops
    /\ procs[p].outcome \notin {"duplicate", "not_found", "type_error"}
    /\ procs[q].outcome \notin {"duplicate", "not_found", "type_error"}

\* C17: on the flat file, when two add calls with distinct ids both load and
\* pass the duplicate check before either writes, both return success and
\* the file afterwards is the list one of them wrote: it holds one of the two
\* added records and not the other.
C17_LastWriterWins ==
    backend = "json" =>
        \A p, q \in Procs :
            (BothWrote(p, q, {"add"}) /\ procs[p].vehicle_id # procs[q].vehicle_id) =>
                /\ procs[p].outcome = "ok" /\ procs[q].outcome = "ok"
                /\ file \in {JsonSave(procs[p].local), JsonSave(procs[q].local)}
                /\ Cardinality(IdsOfFile(file)
                       \cap {procs[p].vehicle_id, procs[q].vehicle_id}) = 1

\* such an interleaving: both adds succeeded, the file holds V2 and not V1
C17_Witness ==
    /\ backend = "json"
    /\ \E p, q \in Procs :
           /\ BothWrote(p, q, {"add"})
           /\ procs[p].vehicle_id = V1 /\ procs[q].vehicle_id = V2
           /\ procs[p].outcome = "ok" /\ procs[q].outcome = "ok"
           /\ IdsOfFile(file) = {V2}

\* C18: on the flat file, when an update and a remove, or two updates, both
\* load before either writes, both return success and the file afterwards is
\* the stale copy one of them wrote: a removed record is present again
\* exactly when the update wrote last, and of two updates only the last
\* writer's list is kept.
C18_StaleCopyWins ==
    backend = "json" =>
        \A p, q \in Procs :
            BothWrote(p, q, {"update", "remove"}) =>
                /\ procs[p].outcome = "ok" /\ procs[q].outcome = "ok"
                /\ file \in {JsonSave(procs[p].local), JsonSave(procs[q].local)}
                /\ (procs[p].op = "remove" /\ procs[q].op = "update") =>
                       (procs[p].vehicle_id \in IdsOfFile(file))
                           = (file = JsonSave(procs[q].local))

\* such an interleaving: remove of V1 and update of V2 both succeeded, and
\* V1 is in the file again
C18_Witness ==
    /\ backend = "json"
    /\ \E p, q \in Procs :
           /\ BothWrote(p, q, {"update", "remove"})
           /\ procs[p].op = "remove" /\ procs[p].vehicle_id = V1
           /\ procs[q].op = "update" /\ procs[q].vehicle_id = V2
           /\ procs[p].outcome = "ok" /\ procs[q].outcome = "ok"
           /\ V1 \in IdsOfFile(file)

\* the other case of C18: two updates of one record, the stato set by one of
\* them is gone from the file
C18_WitnessTwoUpdates ==
    /\ backend = "json"
    /\ \E p, q \in Procs :
           /\ BothWrote(p, q, {"update"})
           /\ procs[p].vehicle_id = V1 /\ procs[q].vehicle_id = V1
           /\ procs[p].arg = [stato |-> InManutenzione]
           /\ procs[p].outcome = "ok" /\ procs[q].outcome = "ok"
           /\ \A i \in 1..Len(file.items) : file.items[i]["stato"] = Disponibile

\* C19: on the relational backend an update that interleaves with a
\* successful remove of the same id does not put the row back (with both
\* calls complete the table has no row with that id), and the write of an
\* update leaves the rows of every other id as they are.
C19_KeyedWrite ==
    /\ [](backend = "mysql" =>
            \A p, q \in Procs :
                (/\ Raced(p, q)
                 /\ procs[p].op = "remove" /\ procs[p].outcome = "ok"
                 /\ procs[q].op = "update"
                 /\ procs[p].vehicle_id = procs[q].vehicle_id) =>
                    RowsWithId(procs[p].vehicle_id) = {})
    /\ [][backend = "mysql" =>
            \A p \in Procs :
                (/\ procs[p].op = "update" /\ procs[p].pc = "pending"
                 /\ procs'[p].pc = "done") =>
                    /\ {r \in table'.rows : r["vehicle_id"] # procs[p].vehicle_id}
                           = {r \in table.rows : r["vehicle_id"] # procs[p].vehicle_id}
                    /\ IdsOfTable(table') = IdsOfTable(table)]_vars

\* the update read the row, the remove deleted it, the update wrote and
\* returned: the row is not back
C19_Witness ==
    /\ backend = "mysql"
    /\ \E p, q \in Procs :
           /\ Raced(p, q)
           /\ procs[p].op = "remove" /\ procs[p].outcome = "ok"
           /\ procs[q].op = "update" /\ procs[q].outcome = "ok"
           /\ procs[p].vehicle_id = V1 /\ procs[q].vehicle_id = V1
           /\ RowsWithId(V1) = {}
           /\ RowsWithId(V2) # {}

----------------------------------------------------------------------------
(* C12: the same calls made on a flat-file store and on a relational store *)

\* a licence plate one character longer than the targa column
LongTarga == [i \in 1..(Widths["targa"] + 1) |-> "X"]

BothIds == {V1, V2}

BothVehicles ==
    {NewVehicle(id, d) : id \in BothIds, d \in 1..MaxDay}
    \cup {[NewVehicle(V2, clock) EXCEPT !["targa"] = LongTarga]}

BothChanges == ChangesIn \cup {[targa |-> LongTarga]}

\* history: every record and every change handed to the stores so far fits
\* the columns of the table
AllFit == [fit |-> TRUE]

InitBoth ==
    /\ backend = "both"
    /\ file = NoFile
    /\ table = NoTable
    /\ clock = 1
    /\ pre = [file |-> NoFile, table |-> NoTable, session |-> NoSession]
    /\ call = [op |-> "none"]
    /\ auth = NoAuth
    /\ session = NoSession
    /\ resp = NoResp
    /\ hist = AllFit
    /\ procs = NoProcs
    /\ users = NoTable

\* what one backend answered
Answer(r) == [outcome |-> r.outcome, ret |-> r.ret]

\* the elements of a list
Range(l) == {l[i] : i \in 1..Len(l)}

LoadBoth ==
    /\ Idle
    /\ \E l \in MySQLLoad(table, clock) :
        /\ table' = EnsureTable(table)
        /\ pre' = Snapshot
        /\ call' = [op |-> "load",
                    json |-> [outcome |-> "ok", ret |-> JsonLoad(file, clock)],
                    mysql |-> [outcome |-> "ok", ret |-> l]]
        /\ UNCHANGED <<backend, file, clock, auth, session, resp, hist, procs, users>>

AddBoth ==
    \E vehicle \in BothVehicles :
        LET j == JsonAdd(file, vehicle, clock)
            m == MySQLAdd(table, vehicle, clock)
        IN  /\ Idle
            /\ file' = j.file
            /\ table' = m.table
            /\ pre' = Snapshot
            /\ call' = [op |-> "add", vehicle |-> vehicle, json |-> Answer(j),
                        mysql |-> Answer(m)]
            /\ hist' = [fit |-> hist.fit /\ Fits(vehicle)]
            /\ UNCHANGED <<backend, clock, auth, session, resp, procs, users>>

UpdateBoth ==
    \E vehicle_id \in BothIds, changes \in BothChanges :
        LET j == JsonUpdate(file, vehicle_id, changes, clock)
            m == MySQLUpdate(table, vehicle_id, changes, clock)
        IN  /\ Idle
            /\ file' = j.file
            /\ table' = m.table
            /\ pre' = Snapshot
            /\ call' = [op |-> "update", vehicle_id |-> vehicle_id, changes |-> changes,
                        json |-> Answer(j), mysql |-> Answer(m)]
            /\ hist' = [fit |-> hist.fit /\ Fits(changes)]
            /\ UNCHANGED <<backend, clock, auth, session, resp, procs, users>>

RemoveBoth ==
    \E vehicle_id \in BothIds :
        LET j == JsonRemove(file, vehicle_id, clock)
            m == MySQLRemove(table, vehicle_id)
        IN  /\ Idle
            /\ file' = j.file
            /\ table' = m.table
            /\ pre' = Snapshot
            /\ call' = [op |-> "remove", vehicle_id |-> vehicle_id, json |-> Answer(j),
                        mysql |-> Answer(m)]
            /\ UNCHANGED <<backend, clock, auth, session, resp, hist, procs, users>>

NextBoth == LoadBoth \/ AddBoth \/ UpdateBoth \/ RemoveBoth \/ Return \/ Tick

SpecBoth == InitBoth /\ [][NextBoth]_vars

\* the records of the file, and of the table with the date as load gives it
RecordsOfFile(f) == Range(f.items)

RecordsOfTable(t) ==
    {[r EXCEPT !["aggiornato_il"] = IsoFormat(r["aggiornato_il"])] : r \in t.rows}

\* the last call had the same outcome on both stores, update returned equal
\* records, load the same records, and the stores hold the same records
SameAnswer ==
    /\ call.json.outcome = call.mysql.outcome
    /\ (call.op = "update" /\ call.json.outcome = "ok")
           => VehicleEq(call.json.ret[1], call.mysql.ret[1])
    /\ call.op = "load"
           => {AsDict(v) : v \in Range(call.json.ret)}
              = {AsDict(v) : v \in Range(call.mysql.ret)}
    /\ RecordsOfFile(file) = RecordsOfTable(table)

----------------------------------------------------------------------------
(* The credential backend: MySQLUserStorage *)

\* the salts generate_password_hash may draw
Salts == {"s1", "s2"}

\* werkzeug's generate_password_hash with the salt it drew: the method's
\* digest of salt and password, kept with the salt; the digest is taken to be
\* free of collisions, so it is the pair itself
GeneratePasswordHash(password, salt) ==
    [salt |-> salt, digest |-> <<salt, password>>]

\* werkzeug's check_password_hash: the digest of the stored salt and the
\* password given, compared with the stored digest
CheckPasswordHash(pwhash, password) ==
    GeneratePasswordHash(password, pwhash.salt).digest = pwhash.digest

\* the username column of the users table
UsernameWidth == [username |-> 80]

\* MySQLUserStorage.verify_user
VerifyUser(t, username, password) ==
    LET t1  == EnsureTable(t)
        row == {r \in t1.rows : r.username = username}
    IN  IF row = {}
        THEN [outcome |-> "ok", table |-> t1, ret |-> FALSE]
        ELSE [outcome |-> "ok", table |-> t1,
              ret |-> CheckPasswordHash((CHOOSE r \in row : TRUE).password_hash, password)]

\* create that replaces the row of a username that exists already
CreateUserReplace(t, username, password, salt, c) ==
    LET t1 == EnsureTable(t) IN
    IF Len(username) > UsernameWidth.username
    THEN [outcome |-> "data_error", table |-> t1, ret |-> None]
    ELSE [outcome |-> "ok",
          table |-> [t1 EXCEPT !.rows = {r \in @ : r.username # username} \cup
                        {[username |-> username,
                          password_hash |-> GeneratePasswordHash(password, salt),
                          creato_il |-> DateOfIso(TodayIso(c))]}],
          ret |-> None]

\* MySQLUserStorage.create_user on day c, generate_password_hash drawing salt
CreateUser(t, username, password, salt, c) ==
    LET t1    == EnsureTable(t)
        count == Cardinality({r \in t1.rows : r.username = username})
    IN  IF count > 0
        THEN [outcome |-> "duplicate", table |-> t1, ret |-> None]
        ELSE IF Len(username) > UsernameWidth.username
             THEN [outcome |-> "data_error", table |-> t1, ret |-> None]
             ELSE [outcome |-> "ok",
                   table |-> [t1 EXCEPT !.rows = @ \cup
                                 {[username |-> username,
                                   password_hash |-> GeneratePasswordHash(password, salt),
                                   creato_il |-> DateOfIso(TodayIso(c))]}],
                   ret |-> None]

\* usernames: two short ones and one a character longer than the column
Usernames == {Admin, <<"b">>, [i \in 1..(UsernameWidth.username + 1) |-> "u"]}

Passwords == {<<"p">>, <<"p", " ">>, <<"p", "U+00E8">>}

\* history: for each username the password of its first successful create
NoneCreated == [u \in Usernames |-> None]

InitUsers ==
    /\ backend = "mysql"
    /\ file = NoFile
    /\ table = NoTable
    /\ clock = 1
    /\ pre = [file |-> NoFile, table |-> NoTable, session |-> NoSession]
    /\ call = [op |-> "none"]
    /\ auth = NoAuth
    /\ session = NoSession
    /\ resp = NoResp
    /\ hist = NoneCreated
    /\ procs = NoProcs
    /\ users = NoTable

VerifyCall ==
    \E username \in Usernames, password \in Passwords :
        LET r == VerifyUser(users, username, password) IN
        /\ Idle
        /\ users' = r.table
        /\ call' = [op |-> "verify", username |-> username, password |-> password,
                    outcome |-> r.outcome, ret |-> r.ret, before |-> users]
        /\ UNCHANGED <<backend, file, table, clock, pre, auth, session, resp, hist, procs>>

CreateCall ==
    \E username \in Usernames, password \in Passwords, salt \in Salts :
        LET r == CreateUser(users, username, password, salt, clock) IN
        /\ Idle
        /\ users' = r.table
        /\ call' = [op |-> "create", username |-> username, password |-> password,
                    outcome |-> r.outcome, ret |-> r.ret, before |-> users]
        /\ hist' = IF r.outcome = "ok" /\ hist[username] = None
                   THEN [hist EXCEPT ![username] = Some(password)]
                   ELSE hist
        /\ UNCHANGED <<backend, file, table, clock, pre, auth, session, resp, procs>>

NextUsers == VerifyCall \/ CreateCall \/ Return \/ Tick

SpecUsers == InitUsers /\ [][NextUsers]_vars

\* C13: verify(username, password) returns true exactly when a create for
\* that username succeeded earlier with that very password, and false, not an
\* error, otherwise; a create for a username that exists fails with the
\* duplicate-username error and leaves the stored rows as they were.
C13_VerifyIffCreated ==
    /\ \A u \in Usernames : (hist[u] # None) = (\E r \in users.rows : r.username = u)
    /\ call.op = "verify" =>
           /\ call.outcome = "ok"
           /\ call.ret = (hist[call.username] = Some(call.password))
           /\ users.rows = call.before.rows
    /\ (call.op = "create" /\ \E r \in call.before.rows : r.username = call.username) =>
           /\ call.outcome = "duplicate"
           /\ users.rows = call.before.rows
    /\ (call.op = "create" /\ call.outcome = "duplicate") =>
           \E r \in call.before.rows : r.username = call.username

\* a username was created, a second create for it with another password was
\* refused, and the row still holds the first password
C13_Witness ==
    /\ call.op = "create" /\ call.outcome = "duplicate"
    /\ hist[call.username] # Some(call.password)
    /\ \E r \in users.rows :
           /\ r.username = call.username
           /\ CheckPasswordHash(r.password_hash, hist[call.username][1])
           /\ ~CheckPasswordHash(r.password_hash, call.password)

----------------------------------------------------------------------------
(* C14, C15, C20: the web handlers and the store *)

\* C14: every web request performs at most one storage operation from start
\* to end; no handler reads the store and then writes it in two storage calls.
C14_OneStorageOp == resp.route # "none" => Len(resp.ops) <= 1

\* what holds of the handlers other than edit_vehicle
C14_OneStorageOpButEdit ==
    (resp.route # "none" /\ resp.route # "edit_vehicle") => Len(resp.ops) <= 1

\* edit_vehicle up to storage.update: the lookup, the form, and the keyword
\* arguments of the update that is still to be called
EditVehicleFind(b, f, t, c, vehicle_id, form) ==
    {LET existing == FindVehicle(l.ret, vehicle_id)
         parsed   == VehicleFromForm(form, Some(vehicle_id), c)
         updated  == parsed.vehicle
     IN  IF existing = None
         THEN [pending |-> FALSE, changes |-> <<>>,
               resp |-> Response(l.file, l.table, 404, "form.html",
                                 Some("Veicolo non trovato."), <<"load">>, <<>>)]
         ELSE IF parsed.error # None
         THEN [pending |-> FALSE, changes |-> <<>>,
               resp |-> Response(l.file, l.table, 400, "form.html", parsed.error,
                                 <<"load">>, <<updated>>)]
         ELSE [pending |-> TRUE,
               changes |-> [targa          |-> updated["targa"],
                            modello        |-> updated["modello"],
                            anno           |-> updated["anno"],
                            chilometraggio |-> updated["chilometraggio"],
                            stato          |-> updated["stato"],
                            note           |-> updated["note"]],
               resp |-> Response(l.file, l.table, 0, "pending", None, <<"load">>, <<>>)] :
        l \in StorageLoad(b, f, t, c)}

\* the storage.update call of edit_vehicle and the redirect after it; the
\* call is in no try block, its ValueError leaves the view
EditVehicleUpdate(b, f, t, c, vehicle_id, changes) ==
    LET r == StorageUpdate(b, f, t, vehicle_id, changes, c) IN
    [outcome |-> r.outcome,
     resp |-> IF r.outcome = "ok"
              THEN Response(r.file, r.table, 302, "redirect:index", None,
                            <<"load", "update">>, <<>>)
              ELSE Response(r.file, r.table, 500, r.outcome, None,
                            <<"load", "update">>, <<>>)]

----------------------------------------------------------------------------
(* The web application serving two requests at once, authentication off *)

\* the forms that leave stato and note out
ConcForms == {form \in VehicleForms : "stato" \notin DOMAIN form}

InitWebConc ==
    /\ backend \in {"json", "mysql"}
    /\ file = NoFile
    /\ table = NoTable
    /\ clock = 1
    /\ pre = [file |-> NoFile, table |-> NoTable, session |-> NoSession]
    /\ call = [op |-> "none"]
    /\ auth = NoAuth
    /\ session = NoSession
    /\ resp = NoResp
    /\ hist = NoHistory
    /\ procs = [p \in Procs |-> IdleProc]
    /\ users = NoTable

\* thread p has answered (or, with pc "pending", is inside) a request:
\* outcome is what the storage operation of the request ended with, local the
\* store before and after that operation
Handling(p, pc, route, vehicle_id, form, changes, outcome, r) ==
    /\ file' = r.file
    /\ table' = r.table
    /\ procs' = [procs EXCEPT ![p] =
                    [pc |-> pc, op |-> route, vehicle_id |-> vehicle_id, arg |-> form,
                     local |-> [changes |-> changes,
                                before |-> [file |-> file, table |-> table],
                                after |-> [file |-> r.file, table |-> r.table]],
                     outcome |-> outcome,
                     ret |-> [status |-> r.status, to |-> r.to, error |-> r.error],
                     overlap |-> {}, stale |-> FALSE]]
    /\ UNCHANGED <<backend, clock, pre, call, auth, session, resp, hist, users>>

PostAddConc ==
    \E p \in Procs, form \in ConcForms :
        LET parsed == VehicleFromForm(form, None, clock) IN
        /\ procs[p].pc = "idle"
        /\ \E r \in AddVehicleView(backend, file, table, clock, form) :
               Handling(p, "done", "add_vehicle", <<>>, form, <<>>,
                        IF parsed.error # None THEN "none"
                        ELSE StorageAdd(backend, file, table, parsed.vehicle,
                                        clock).outcome,
                        r)

PostEditFind ==
    \E p \in Procs, vehicle_id \in UrlIds, form \in ConcForms :
        /\ procs[p].pc = "idle"
        /\ \E r \in EditVehicleFind(backend, file, table, clock, vehicle_id, form) :
               Handling(p, IF r.pending THEN "pending" ELSE "done", "edit_vehicle",
                        vehicle_id, form, r.changes, "none", r.resp)

PostEditUpdate ==
    \E p \in Procs :
        LET me == procs[p]
            r  == EditVehicleUpdate(backend, file, table, clock, me.vehicle_id,
                                    me.local.changes)
        IN  /\ me.pc = "pending"
            /\ me.op = "edit_vehicle"
            /\ Handling(p, "done", "edit_vehicle", me.vehicle_id, me.arg,
                        me.local.changes, r.outcome, r.resp)

PostDeleteConc ==
    \E p \in Procs, vehicle_id \in UrlIds :
        /\ procs[p].pc = "idle"
        /\ \E r \in DeleteVehicleView(backend, file, table, clock, vehicle_id) :
               Handling(p, "done", "delete_vehicle", vehicle_id, <<>>, <<>>,
                        StorageRemove(backend, file, table, vehicle_id, clock).outcome,
                        r)

NextWebConc ==
    PostAddConc \/ PostEditFind \/ PostEditUpdate \/ PostDeleteConc \/ ReturnConc

SpecWebConc == InitWebConc /\ [][NextWebConc]_vars

\* the storage-core errors: duplicate identifier and not found
CoreErrors == {"duplicate", "not_found"}

\* C15: under any interleaving of requests, a web add or web edit whose
\* storage operation fails with a storage-core error answers with the form,
\* the error message and an error status code, never with an unhandled
\* exception; a web delete whose remove fails with not-found redirects to the
\* index and leaves the store as it was.
C15_StorageErrorsRendered ==
    \A p \in Procs :
        procs[p].pc = "done" =>
            /\ (procs[p].op \in {"add_vehicle", "edit_vehicle"}
                    /\ procs[p].outcome \in CoreErrors) =>
                   /\ procs[p].ret.status \in 400..499
                   /\ procs[p].ret.to = "form.html"
                   /\ procs[p].ret.error # None
            /\ procs[p].op = "delete_vehicle" =>
                   /\ procs[p].ret.status = 302
                   /\ procs[p].ret.to = "redirect:index"
                   /\ procs[p].outcome = "not_found" =>
                          /\ procs[p].local.after.file = procs[p].local.before.file
                          /\ procs[p].local.after.table.rows
                                 = procs[p].local.before.table.rows

\* the part of C15 the code keeps: web add and web delete
C15_AddAndDeleteRendered ==
    \A p \in Procs :
        (procs[p].pc = "done" /\ procs[p].op # "edit_vehicle") =>
            /\ (procs[p].op = "add_vehicle" /\ procs[p].outcome \in CoreErrors) =>
                   /\ procs[p].ret.status \in 400..499
                   /\ procs[p].ret.to = "form.html"
                   /\ procs[p].ret.error # None
            /\ procs[p].op = "delete_vehicle" =>
                   /\ procs[p].ret.status = 302
                   /\ procs[p].ret.to = "redirect:index"
                   /\ procs[p].outcome = "not_found" =>
                          /\ procs[p].local.after.file = procs[p].local.before.file
                          /\ procs[p].local.after.table.rows
                                 = procs[p].local.before.table.rows

\* the fields a request must give in its form: in a web edit the vehicle_id
\* comes with the URL
RequiredOfForm(route) ==
    IF route = "add_vehicle"
    THEN {"vehicle_id", "targa", "modello", "anno", "chilometraggio"}
    ELSE {"targa", "modello", "anno", "chilometraggio"}

\* a required field is absent or empty after trimming, or anno or
\* chilometraggio is not what int() takes for an integer
InvalidForm(route, form) ==
    \/ \E k \in RequiredOfForm(route) : Strip(FormGet(form, k, <<>>)) = <<>>
    \/ ~PyInt(Strip(FormGet(form, "anno", <<>>))).ok
    \/ ~PyInt(Strip(FormGet(form, "chilometraggio", <<>>))).ok

\* C20: a web add or web edit whose form lacks a required field or whose anno
\* or chilometraggio is not an integer is answered with the form and an error
\* status code, performs no mutating storage operation and leaves the store
\* unchanged; a web edit that succeeds has updated the record of the URL's
\* vehicle_id, whatever vehicle_id the form carries, and no other record.
C20_InvalidFormRefused ==
    (resp.route \in {"add_vehicle", "edit_vehicle"} /\ resp.view) =>
        /\ InvalidForm(resp.route, resp.form) =>
               /\ resp.status \in 400..499
               /\ resp.to = "form.html"
               /\ resp.error # None
               /\ \A i \in 1..Len(resp.ops) : resp.ops[i] = "load"
               /\ StoreUnchanged
        /\ (resp.route = "edit_vehicle" /\ resp.status = 302) =>
               LET id == resp.vehicle_id[1] IN
               /\ StoreIds(file, table) = StoreIds(pre.file, pre.table)
               /\ id \in StoreIds(file, table)
               /\ StoredRecord(file, table, id)["targa"]
                      = Strip(resp.form["targa"])
               /\ \A other \in StoreIds(file, table) \ {id} :
                      StoredRecord(file, table, other)
                          = StoredRecord(pre.file, pre.table, other)

\* a web edit of a stored record with an anno that is no integer was refused
C20_Witness ==
    /\ resp.route = "edit_vehicle" /\ resp.view
    /\ WasPresent(resp.vehicle_id[1])
    /\ resp.form["anno"] = <<"2", "x">>
    /\ resp.status = 400
    /\ StoreUnchanged

\* a web edit of V1 whose form names V2 updated V1, with V2 in the store
C20_WitnessUrlDecides ==
    /\ resp.route = "edit_vehicle" /\ resp.status = 302
    /\ resp.vehicle_id[1] = V1
    /\ "vehicle_id" \in DOMAIN resp.form /\ resp.form["vehicle_id"] = V2
    /\ StoreIds(file, table) = {V1, V2}
    /\ StoredRecord(file, table, V1)["targa"] = <<"C", "D">>
    /\ StoredRecord(file, table, V2)["targa"] = <<"A", "B">>

----------------------------------------------------------------------------
(* The storage factory: get_storage *)

\* the capital letters of the tags and their small letters
SmallOf ==
    [J |-> "j", S |-> "s", O |-> "o", N |-> "n", M |-> "m", Y |-> "y", Q |-> "q",
     L |-> "l"]

\* str.lower() of one character
LowerChar(ch) == IF ch \in DOMAIN SmallOf THEN SmallOf[ch] ELSE ch

\* str.lower()
Lower(s) == [i \in 1..Len(s) |-> LowerChar(s[i])]

Json == <<"j", "s", "o", "n">>

Mysql == <<"m", "y", "s", "q", "l">>

\* get_storage that compares the tag as it was given
GetStorageAsGiven(db_type, db_path, mysql_url, mysql_db) ==
    IF db_type = Json
    THEN [outcome |-> "ok", class |-> "VehicleStorage", path |-> db_path]
    ELSE IF db_type = Mysql
    THEN IF ~Truthy(mysql_url)
         THEN [outcome |-> "value_error", message |-> "missing_mysql_url"]
         ELSE [outcome |-> "ok", class |-> "MySQLVehicleStorage", url |-> mysql_url[1],
               database |-> mysql_db]
    ELSE [outcome |-> "value_error", message |-> "unsupported_type"]

\* get_storage
GetStorage(db_type, db_path, mysql_url, mysql_db) ==
    LET normalized == Lower(db_type) IN
    IF normalized = Json
    THEN [outcome |-> "ok", class |-> "VehicleStorage", path |-> db_path]
    ELSE IF normalized = Mysql
    THEN IF ~Truthy(mysql_url)
         THEN [outcome |-> "value_error", message |-> "missing_mysql_url"]
         ELSE [outcome |-> "ok", class |-> "MySQLVehicleStorage", url |-> mysql_url[1],
               database |-> mysql_db]
    ELSE [outcome |-> "value_error", message |-> "unsupported_type"]

\* a word in every mix of capital and small letters
Spellings(word) ==
    {s \in [1..Len(word) -> (DOMAIN SmallOf) \cup {word[i] : i \in 1..Len(word)}] :
        Lower(s) = word}

\* backend-type tags: json and mysql in every spelling, and tags that are
\* neither
TagsIn ==
    Spellings(Json) \cup Spellings(Mysql)
    \cup {<<>>, <<" ">> \o Json, Json \o <<"l">>, <<"j", "s", "o">>,
          <<"s", "q", "l">>, <<"M", "Y", "S", "Q">>}

\* --mysql-url: not given, given empty, given
UrlsIn == {None, Some(<<>>), Some(<<"m", "y", "s", "q", "l", ":", "/", "/", "h">>)}

InitFactory ==
    /\ backend = "none"
    /\ file = NoFile
    /\ table = NoTable
    /\ clock = 1
    /\ pre = [file |-> NoFile, table |-> NoTable, session |-> NoSession]
    /\ \E db_type \in TagsIn, mysql_url \in UrlsIn :
           call = [op |-> "input", db_type |-> db_type, mysql_url |-> mysql_url]
    /\ auth = NoAuth
    /\ session = NoSession
    /\ resp = NoResp
    /\ hist = NoHistory
    /\ procs = NoProcs
    /\ users = NoTable

GetStorageCall ==
    /\ call.op = "input"
    /\ call' = [call EXCEPT !.op = "get_storage"] @@
               [result |-> GetStorage(call.db_type, <<"d", "b">>, call.mysql_url, None)]
    /\ UNCHANGED <<backend, file, table, clock, pre, auth, session, resp, hist, procs,
                   users>>

NextFactory == GetStorageCall

SpecFactory == InitFactory /\ [][NextFactory]_vars

\* two tags are the same but for the case of their letters
SameButCase(a, b) ==
    /\ Len(a) = Len(b)
    /\ \A i \in 1..Len(a) :
           \/ a[i] = b[i]
           \/ \E ch \in DOMAIN SmallOf : {a[i], b[i]} = {ch, SmallOf[ch]}

\* C16: get_storage, comparing the tag without regard to case, returns a
\* flat-file backend for "json", a relational backend for "mysql" with a
\* non-empty URL, fails with the missing-URL error for "mysql" without one,
\* and fails with the unsupported-type error for every other tag.
C16_GetStorage ==
    call.op = "get_storage" =>
        LET res == call.result IN
        /\ SameButCase(call.db_type, Json) =>
               res.outcome = "ok" /\ res.class = "VehicleStorage"
        /\ (SameButCase(call.db_type, Mysql) /\ Truthy(call.mysql_url)) =>
               /\ res.outcome = "ok" /\ res.class = "MySQLVehicleStorage"
               /\ res.url = call.mysql_url[1]
        /\ (SameButCase(call.db_type, Mysql) /\ ~Truthy(call.mysql_url)) =>
               res.outcome = "value_error" /\ res.message = "missing_mysql_url"
        /\ (~SameButCase(call.db_type, Json) /\ ~SameButCase(call.db_type, Mysql)) =>
               res.outcome = "value_error" /\ res.message = "unsupported_type"

\* "MySql" with a URL gave a relational backend
C16_Witness ==
    /\ call.op = "get_storage"
    /\ call.db_type = <<"M", "y", "S", "q", "l">>
    /\ Truthy(call.mysql_url)
    /\ call.result.outcome = "ok" /\ call.result.class = "MySQLVehicleStorage"

----------------------------------------------------------------------------
(* C21, C22: what every interleaving of two callers keeps, and what it does not *)

\* C21: on the flat file, under every interleaving of add, update and remove
\* calls of concurrent processes (each load and each save one step, no
\* changes naming vehicle_id), the file never holds two records with one
\* vehicle_id.
C21_FileIdsDistinct ==
    backend = "json" =>
        \A i, j \in 1..Len(file.items) :
            file.items[i]["vehicle_id"] = file.items[j]["vehicle_id"] => i = j

\* two add calls for V1 both passed the duplicate check before either saved,
\* both returned success, and the file holds V2 and one record V1
C21_Witness ==
    /\ backend = "json"
    /\ \E p, q \in Procs :
           /\ AddRace(p, q)
           /\ procs[p].vehicle_id = V1
           /\ procs[p].outcome = "ok" /\ procs[q].outcome = "ok"
           /\ IdSeqOfFile(file) = <<V2, V1>>

\* C22: on the relational backend, whenever update(id, changes) returns a
\* record, the table at the commit of its write holds a row with vehicle_id
\* id whose fields equal the returned record, under every interleaving with
\* remove calls: an update whose row is gone at its write does not return a
\* record.
C22_ReturnedRowStored ==
    [][backend = "mysql" =>
          \A p \in Procs :
              (/\ procs[p].op = "update" /\ procs[p].pc = "pending"
               /\ procs'[p].pc = "done" /\ procs'[p].outcome = "ok") =>
                  \E r \in RecordsOfTable(table') :
                      /\ r["vehicle_id"] = procs[p].vehicle_id
                      /\ VehicleEq(procs'[p].ret[1], r)]_vars

\* C22 as the code has it: whenever update(id, changes) returns a record, if
\* a row with vehicle_id id is in the table when the write runs, the table at
\* the commit holds that row with the fields of the returned record; if a
\* remove has deleted the row since the pre-read, the write matches no row,
\* the table stays without a row of that id and the record is returned all
\* the same.
C22_ReturnedRowStoredIfPresent ==
    [][backend = "mysql" =>
          \A p \in Procs :
              (/\ procs[p].op = "update" /\ procs[p].pc = "pending"
               /\ procs'[p].pc = "done" /\ procs'[p].outcome = "ok") =>
                  /\ procs'[p].ret # None
                  /\ IF RowsWithId(procs[p].vehicle_id) # {}
                     THEN \E r \in RecordsOfTable(table') :
                              /\ r["vehicle_id"] = procs[p].vehicle_id
                              /\ VehicleEq(procs'[p].ret[1], r)
                     ELSE table' = table]_vars

\* an update of V1 and a remove of V2 ran interleaved and both succeeded: the
\* table holds the row of V1 with the plate the update returned
C22_Witness ==
    /\ backend = "mysql"
    /\ \E p, q \in Procs :
           /\ Raced(p, q)
           /\ procs[p].op = "update" /\ procs[p].vehicle_id = V1
           /\ procs[p].arg = [targa |-> <<"C", "D">>]
           /\ procs[p].outcome = "ok" /\ procs[p].ret # None
           /\ procs[q].op = "remove" /\ procs[q].vehicle_id = V2
           /\ procs[q].outcome = "ok"
           /\ \E r \in RecordsOfTable(table) :
                  r["vehicle_id"] = V1 /\ VehicleEq(procs[p].ret[1], r)

\* the other case: the update of V1 returned the record with the new plate
\* after a remove had deleted the row, and the table has no row of V1
C22_WitnessRowGone ==
    /\ backend = "mysql"
    /\ \E p, q \in Procs :
           /\ Raced(p, q)
           /\ procs[p].op = "update" /\ procs[p].vehicle_id = V1
           /\ procs[p].outcome = "ok" /\ procs[p].ret # None
           /\ procs[p].ret[1]["targa"] = <<"C", "D">>
           /\ procs[q].op = "remove" /\ procs[q].vehicle_id = V1
           /\ procs[q].outcome = "ok"
           /\ V1 \notin IdsOfTable(table)

====
